---- MODULE Spec2Model ----
(***************************************************************************)
(* Span lifecycle of the observability library: the two tracing services,  *)
(* the two HTTP request interceptors and the code that uses them.          *)
(*                                                                         *)
(* One behaviour of the model is one operation of the library (a call of   *)
(* createSpan/endSpan, of trace, of traceWithActiveSpan, or one            *)
(* intercepted HTTP request), run from its call to its last callback.      *)
(* The steps are the places where the JavaScript event loop may run other  *)
(* code: an await, a promise continuation, a stream notification.          *)
(***************************************************************************)
EXTENDS Integers, Sequences, FiniteSets, TLC

VARIABLES
    cfg,          \* configuration snapshot: module in use, enabled/initialized flags
    spans,        \* every span object handed out so far, by id (its index)
    active,       \* ambient current span of the running task (0: none)
    op,           \* the operation in progress
    pc,           \* its position
    inp,          \* the inputs the operation was called with
    cur,          \* the span the operation holds in its local `span` (0: none)
    out,          \* what the caller has received so far, in order
    calls,        \* span-method calls application code has made
    typeErrors,   \* how many of them raised "x is not a function"
    invoked,      \* how often the wrapped fn / downstream handler was invoked
    emitted,      \* values the handler's result stream has emitted
    completed,    \* runs of an interceptor's Completed-path callback
    failed,       \* runs of an interceptor's Failed-path callback
    errorTotal,   \* http.error.total counter
    requestTotal, \* http.request.total counter
    durationObs,  \* observations of the http.request.duration histogram
    registry,     \* MetricsService: the four instrument maps, key -> instrument
    meter,        \* every instrument the Meter has created, by id (its index)
    held,         \* the instrument handle each request task got from its last lookup
    records       \* log records the logging service dispatched to a sink, in order

vars == <<cfg, spans, active, op, pc, inp, cur, out, calls, typeErrors,
          invoked, emitted, completed, failed, errorTotal, requestTotal,
          durationObs, registry, meter, held, records>>

\* Application span-method calls made during one operation.
MaxCalls == 2
\* Values one handler result stream emits at most.
MaxEmit == 2

(***************************************************************************)
(* Values                                                                  *)
(***************************************************************************)
\* Application error objects; the value stands for the object's identity.
Errors == {"e1", "e2"}
\* An error raised by instrumentation code itself (a TypeError of
\* JSON.stringify, an exception of a caller-supplied extractor).
InstrError == "ie"
NoError == "none"

Message(e) ==
    CASE e = "e1" -> "boom"
      [] e = "e2" -> "bang"
      [] OTHER -> "instrumentation failure"

\* The methods of the Span interface application code may call.
Methods == {"setAttribute", "setAttributes", "addEvent", "setStatus",
            "recordException", "end"}

\* An attribute map is the set of its <<key, value>> entries.
NoAttrs == {}
\* Attribute maps given by callers: none, or the key "k" with a primitive, a
\* plain object, an object JSON.stringify rejects, or null.
AttrInputs == {NoAttrs, {<<"k", "prim">>}, {<<"k", "obj">>}, {<<"k", "cyclic">>},
               {<<"k", "null">>}}

(***************************************************************************)
(* Span objects                                                            *)
(*   real    a recording span of the SDK                                   *)
(*   stub    the object literal createSpan returns when disabled/failed    *)
(*   empty   the `{}` traceWithActiveSpan passes when disabled             *)
(*   sdknoop the non-recording span startSpan('noop') gives                *)
(*   null    no object at all (a caller passing null or undefined)         *)
(* log is the sequence of method calls made on the object, with who made   *)
(* them ("lib" or "app"); the other fields are what the span would export. *)
(***************************************************************************)
NewSpan(kind, parent) ==
    [kind |-> kind, parent |-> parent, status |-> "UNSET", message |-> "",
     exceptions |-> <<>>, attrs |-> NoAttrs, log |-> <<>>]

HasMethod(kind, m) ==
    CASE kind = "real" -> TRUE
      [] kind = "sdknoop" -> TRUE
      [] kind = "stub" -> m \in {"setAttribute", "setStatus", "recordException", "end"}
      [] OTHER -> FALSE

RECURSIVE CountEnd(_)
CountEnd(log) ==
    IF log = <<>> THEN 0
    ELSE (IF Head(log).m = "end" THEN 1 ELSE 0) + CountEnd(Tail(log))

EndCount(s) == CountEnd(s.log)

\* Calls of method m the library made on s.
LibCount(s, m) == Cardinality({i \in DOMAIN s.log : s.log[i] = [m |-> m, by |-> "lib"]})

LibEnds(s) == LibCount(s, "end")
Ended(s) == EndCount(s) > 0

Logged(s, m, by) == [s EXCEPT !.log = Append(@, [m |-> m, by |-> by])]

\* A recording span takes mutations until it is ended; later ones are dropped.
Mutable(s) == s.kind = "real" /\ ~Ended(s)

Put(attrs, k, v) == {p \in attrs : p[1] # k} \cup {<<k, v>>}

\* The attribute map giving each of keys a primitive value.
Prims(keys) == {<<k, "prim">> : k \in keys}

SetAttribute(s, k, v, by) ==
    Logged(IF Mutable(s) THEN [s EXCEPT !.attrs = Put(@, k, v)] ELSE s,
           "setAttribute", by)

SetStatus(s, code, msg, by) ==
    Logged(IF Mutable(s) THEN [s EXCEPT !.status = code, !.message = msg] ELSE s,
           "setStatus", by)

RecordException(s, e, by) ==
    Logged(IF Mutable(s) THEN [s EXCEPT !.exceptions = Append(@, e)] ELSE s,
           "recordException", by)

End(s, by) == Logged(s, "end", by)

SetAttributes(s, keys, by) ==
    Logged(IF Mutable(s)
           THEN [s EXCEPT !.attrs = {p \in @ : p[1] \notin keys}
                                      \cup {<<k, "prim">> : k \in keys}]
           ELSE s,
           "setAttributes", by)

AddEvent(s, by) == Logged(s, "addEvent", by)

(***************************************************************************)
(* tracing/tracing.service.ts                                              *)
(***************************************************************************)
\* The value a caller-given attribute is stored as (object values go through
\* JSON.stringify, whose failure falls back to '[Object]').
Stored(v) ==
    CASE v = "obj" -> "json"
      [] v = "cyclic" -> "[Object]"
      [] OTHER -> v

\* Object.entries(attributes).forEach(...) of createSpan and endSpan.
RECURSIVE Attach(_, _)
Attach(s, attrs) ==
    IF attrs = {} THEN s
    ELSE LET p == CHOOSE x \in attrs : TRUE
             t == IF p[2] = "null" THEN s
                  ELSE SetAttribute(s, p[1], Stored(p[2]), "lib")
         IN Attach(t, attrs \ {p})

StandardAttrs ==
    {<<x, "prim">> : x \in {"service.name", "service.version", "environment"}}

\* Whether forEach makes a setAttribute call at all.
Attaches(attrs) == \E p \in attrs : p[2] # "null"

\* Where the SDK fails during one createSpan call: "ok" (nowhere), "start"
\* (getTracer/startSpan throws) or "attr" (a setAttribute throws).
SdkFaults == {"ok", "start", "attr"}

SdkFails(sdk, attrs) == sdk = "start" \/ (sdk = "attr" /\ Attaches(attrs))

StubSpan == NewSpan("stub", 0)

RealSpan(attrs, parent) ==
    Attach([NewSpan("real", parent) EXCEPT !.attrs = StandardAttrs], attrs)

\* createSpan without its try/catch: an SDK failure escapes.
CreateSpanNoCatch(enabled, sdk, attrs, parent) ==
    IF ~enabled THEN [span |-> StubSpan, threw |-> FALSE]
    ELSE IF SdkFails(sdk, attrs) THEN [span |-> StubSpan, threw |-> TRUE]
    ELSE [span |-> RealSpan(attrs, parent), threw |-> FALSE]

\* createSpan(name, attributes, options): the span returned, and whether the
\* call itself threw.
CreateSpan(enabled, sdk, attrs, parent) ==
    IF ~enabled THEN [span |-> StubSpan, threw |-> FALSE]
    ELSE IF SdkFails(sdk, attrs) THEN [span |-> StubSpan, threw |-> FALSE]
    ELSE [span |-> RealSpan(attrs, parent), threw |-> FALSE]

\* The capability check of endSpan.
HasRequiredMethods(s) ==
    /\ HasMethod(s.kind, "setAttribute")
    /\ HasMethod(s.kind, "setStatus")
    /\ HasMethod(s.kind, "end")

\* The status branch with the success test inverted and the error dropped.
FinalStatusSwapped(s, success, error) ==
    LET a == SetAttribute(s, "operation.success", IF success THEN "true" ELSE "false", "lib")
    IN IF ~success THEN SetStatus(a, "OK", "", "lib")
       ELSE SetStatus(a, "ERROR", "Unknown error", "lib")

\* The status branch of endSpan.
FinalStatus(s, success, error) ==
    LET a == SetAttribute(s, "operation.success", IF success THEN "true" ELSE "false", "lib")
    IN IF success THEN SetStatus(a, "OK", "", "lib")
       ELSE IF error # NoError
            THEN LET b == RecordException(SetStatus(a, "ERROR", Message(error), "lib"),
                                          error, "lib")
                     c == SetAttribute(b, "error.type", "prim", "lib")
                     d == SetAttribute(c, "error.message", "prim", "lib")
                 IN SetAttribute(d, "error.stack", "prim", "lib")
            ELSE SetStatus(a, "ERROR", "Unknown error", "lib")

\* endSpan setting the status before it applies the extra attributes.
EndSpanStatusFirst(s, success, error, attrs) ==
    IF ~HasRequiredMethods(s) THEN s
    ELSE End(Attach(FinalStatus(s, success, error), attrs), "lib")

\* endSpan calling span.end() in the try block and again after it.
EndSpanTwice(s, success, error, attrs) ==
    IF ~HasRequiredMethods(s) THEN s
    ELSE End(End(FinalStatus(Attach(s, attrs), success, error), "lib"), "lib")

\* endSpan(span, success, error, attributes).
EndSpan(s, success, error, attrs) ==
    IF ~HasRequiredMethods(s) THEN s
    ELSE End(FinalStatus(Attach(s, attrs), success, error), "lib")

Value(v) == [t |-> "value", v |-> v]
Thrown(e) == [t |-> "error", v |-> e]
Complete == [t |-> "complete", v |-> ""]

HttpUnchanged == <<emitted, completed, failed, errorTotal, requestTotal, durationObs>>

\* The state of the metrics and logging services.
OtherPillars == <<registry, meter, held, records>>

\* A catch block that throws a new error wrapping the caught one.
RethrowWrapped(e) == Thrown("wrapped")

\* `throw error` in a catch block of the library: what the caller receives.
Rethrow(e) == Thrown(e)

\* An application call of createSpan; the caller keeps the span.
CreateSpanCall(sdk, attrs) ==
    /\ op = "idle"
    /\ cfg.module = "tracing"
    /\ LET r == CreateSpan(cfg.enabled, sdk, attrs, active)
       IN /\ spans' = Append(spans, r.span)
          /\ cur' = Len(spans) + 1
          /\ out' = IF r.threw THEN <<Thrown(InstrError)>> ELSE <<>>
    /\ op' = "createSpan"
    /\ pc' = "held"
    /\ inp' = [faulted |-> SdkFails(sdk, attrs)]
    /\ UNCHANGED <<cfg, active, calls, typeErrors, invoked>>
    /\ UNCHANGED HttpUnchanged
    /\ UNCHANGED OtherPillars

\* Attribute maps given to endSpan: those of AttrInputs and one of two entries.
EndAttrInputs == AttrInputs \cup {{<<"j", "prim">>, <<"k", "obj">>}}

\* An application call of endSpan on the span it holds. The try/catch of
\* endSpan lets nothing escape to the caller.
EndSpanCall(success, error, attrs) ==
    /\ op = "createSpan"
    /\ pc = "held"
    /\ spans' = [spans EXCEPT ![cur] = EndSpan(@, success, error, attrs)]
    /\ op' = "endSpan"
    /\ pc' = "done"
    /\ inp' = [success |-> success, error |-> error, attrs |-> attrs,
               before |-> Len(spans[cur].log)]
    /\ UNCHANGED <<cfg, active, cur, out, calls, typeErrors, invoked>>
    /\ UNCHANGED HttpUnchanged
    /\ UNCHANGED OtherPillars

\* What a caller may pass to endSpan that createSpan did not return: nothing,
\* or the `{}` traceWithActiveSpan hands out when tracing is disabled.
ForeignSpans == {"null", "empty"}

\* An application call of endSpan on such an argument: the `!span` test and
\* the capability check return before anything is called on it.
EndSpanForeignCall(kind, success, error, attrs) ==
    /\ op = "idle"
    /\ cfg.module = "tracing"
    /\ spans' = Append(spans, EndSpan(NewSpan(kind, 0), success, error, attrs))
    /\ cur' = Len(spans) + 1
    /\ op' = "endSpan"
    /\ pc' = "done"
    /\ inp' = [success |-> success, error |-> error, attrs |-> attrs, before |-> 0]
    /\ UNCHANGED <<cfg, active, out, calls, typeErrors, invoked>>
    /\ UNCHANGED HttpUnchanged
    /\ UNCHANGED OtherPillars

\* The effect of application code calling method m of span s.
AppCall(s, m) ==
    CASE m = "setAttribute" -> SetAttribute(s, "app", "prim", "app")
      [] m = "setAttributes" -> SetAttributes(s, {"app"}, "app")
      [] m = "addEvent" -> AddEvent(s, "app")
      [] m = "setStatus" -> SetStatus(s, "ERROR", "app", "app")
      [] m = "recordException" -> RecordException(s, "e1", "app")
      [] OTHER -> End(s, "app")

\* Application code (the holder of a created span, or fn while it runs)
\* calls a method of the span it was given.
Invoke(m) ==
    /\ \/ op = "createSpan" /\ pc = "held"
       \/ op \in {"trace", "active"} /\ pc = "awaiting"
    /\ calls < MaxCalls
    /\ calls' = calls + 1
    /\ IF HasMethod(spans[cur].kind, m)
       THEN /\ spans' = [spans EXCEPT ![cur] = AppCall(@, m)]
            /\ UNCHANGED typeErrors
       ELSE /\ typeErrors' = typeErrors + 1
            /\ UNCHANGED spans
    /\ UNCHANGED <<cfg, active, op, pc, inp, cur, out, invoked>>
    /\ UNCHANGED HttpUnchanged
    /\ UNCHANGED OtherPillars

\* What fn does: returns a value, returns a promise that resolves or rejects,
\* or throws synchronously.
FnBehaviours == {"return", "resolve", "throw", "reject"}
\* The resultAttributes option: absent, an extractor that returns a map, or one
\* that throws.
Extractors == {"none", "ok", "throws"}

\* trace(name, fn, options), up to the await of fn's result. A synchronous
\* throw of fn reaches the catch block in the same step. by is the caller:
\* the application ("app") or the Trace decorator, whose autoEnd option is
\* the value of by then.
TraceBegin(fnb, e, ext, sdk, attrs, by) ==
    /\ LET r == CreateSpan(cfg.enabled, sdk, attrs, active)
           id == Len(spans) + 1
       IN /\ cur' = id
          /\ IF r.threw
             THEN /\ spans' = Append(spans, r.span)
                  /\ out' = <<Thrown(InstrError)>>
                  /\ pc' = "done"
                  /\ UNCHANGED invoked
             ELSE /\ invoked' = invoked + 1
                  /\ IF fnb = "throw"
                     THEN /\ spans' = Append(spans, EndSpan(r.span, FALSE, e, NoAttrs))
                          /\ out' = <<Rethrow(e)>>
                          /\ pc' = "done"
                     ELSE /\ spans' = Append(spans, r.span)
                          /\ out' = <<>>
                          /\ pc' = "awaiting"
    /\ op' = "trace"
    /\ inp' = [fnb |-> fnb, err |-> e, ext |-> ext, by |-> by]
    /\ UNCHANGED <<cfg, active, calls, typeErrors>>
    /\ UNCHANGED HttpUnchanged
    /\ UNCHANGED OtherPillars

\* An application call of trace.
TraceCall(fnb, e, ext, sdk, attrs) ==
    /\ op = "idle"
    /\ cfg.module = "tracing"
    /\ TraceBegin(fnb, e, ext, sdk, attrs, "app")

\* trace after the await: the extractor, endSpan and the result.
TraceSettle ==
    /\ op = "trace"
    /\ pc = "awaiting"
    /\ IF inp.fnb = "reject"
       THEN /\ spans' = [spans EXCEPT ![cur] = EndSpan(@, FALSE, inp.err, NoAttrs)]
            /\ out' = <<Rethrow(inp.err)>>
       ELSE IF inp.ext = "throws"
            THEN /\ spans' = [spans EXCEPT ![cur] = EndSpan(@, FALSE, InstrError, NoAttrs)]
                 /\ out' = <<Rethrow(InstrError)>>
            ELSE /\ spans' = [spans EXCEPT ![cur] =
                                EndSpan(@, TRUE, NoError,
                                        IF inp.ext = "ok" THEN {<<"result", "prim">>}
                                        ELSE NoAttrs)]
                 /\ out' = <<Value("v")>>
    /\ pc' = "done"
    /\ UNCHANGED <<cfg, active, op, inp, cur, calls, typeErrors, invoked>>
    /\ UNCHANGED HttpUnchanged
    /\ UNCHANGED OtherPillars

\* The attribute loop of traceWithActiveSpan (no JSON conversion).
RECURSIVE AttachRaw(_, _)
AttachRaw(s, attrs) ==
    IF attrs = {} THEN s
    ELSE LET p == CHOOSE x \in attrs : TRUE
             t == IF p[2] = "null" THEN s ELSE SetAttribute(s, p[1], p[2], "lib")
         IN AttachRaw(t, attrs \ {p})

\* The catch and finally blocks of traceWithActiveSpan.
ActiveFailed(s, e) ==
    End(RecordException(SetStatus(s, "ERROR", Message(e), "lib"), e, "lib"), "lib")

\* Its try and finally blocks on success.
ActiveSucceeded(s) == End(SetStatus(s, "OK", "", "lib"), "lib")

\* startActiveSpan runs its callback inside context.with: the callback and
\* its continuations see the new span as current, the caller's own context is
\* the one it had. A with that left the span current for the caller:
ContextAfterWithLeaked(prev, id) == id

\* The current span of the caller once the callback's promise has settled.
ContextAfterWith(prev, id) == prev

\* The span traceWithActiveSpan hands to fn when tracing is disabled.
DisabledActiveSpan == NewSpan("empty", 0)

\* traceWithActiveSpan(name, fn, attributes), up to the await of fn's result.
ActiveCall(fnb, e, attrs) ==
    /\ op = "idle"
    /\ cfg.module = "tracing"
    /\ LET id == Len(spans) + 1
           s == IF cfg.enabled THEN AttachRaw(NewSpan("real", active), attrs)
                ELSE DisabledActiveSpan
       IN /\ cur' = id
          /\ IF fnb = "throw"
             THEN /\ spans' = Append(spans, IF cfg.enabled THEN ActiveFailed(s, e) ELSE s)
                  /\ out' = <<IF cfg.enabled THEN Rethrow(e) ELSE Thrown(e)>>
                  /\ pc' = "done"
                  /\ UNCHANGED active
             ELSE /\ spans' = Append(spans, s)
                  /\ out' = <<>>
                  /\ pc' = "awaiting"
                  /\ active' = IF cfg.enabled THEN id ELSE active
    /\ op' = "active"
    /\ invoked' = invoked + 1
    /\ inp' = [fnb |-> fnb, err |-> e, prev |-> active]
    /\ UNCHANGED <<cfg, calls, typeErrors>>
    /\ UNCHANGED HttpUnchanged
    /\ UNCHANGED OtherPillars

\* traceWithActiveSpan after the await.
ActiveSettle ==
    /\ op = "active"
    /\ pc = "awaiting"
    /\ IF inp.fnb = "reject"
       THEN /\ spans' = IF cfg.enabled
                        THEN [spans EXCEPT ![cur] = ActiveFailed(@, inp.err)]
                        ELSE spans
            /\ out' = <<IF cfg.enabled THEN Rethrow(inp.err) ELSE Thrown(inp.err)>>
       ELSE /\ spans' = IF cfg.enabled
                        THEN [spans EXCEPT ![cur] = ActiveSucceeded(@)]
                        ELSE spans
            /\ out' = <<Value("v")>>
    /\ active' = ContextAfterWith(inp.prev, cur)
    /\ pc' = "done"
    /\ UNCHANGED <<cfg, op, inp, cur, calls, typeErrors, invoked>>
    /\ UNCHANGED HttpUnchanged
    /\ UNCHANGED OtherPillars

\* A whole trace call whose fn returns at once, with the span it leaves.
InnerTrace(enabled, sdk, parent) ==
    EndSpan(CreateSpan(enabled, sdk, NoAttrs, parent).span, TRUE, NoError, NoAttrs)

\* fn of a running trace or traceWithActiveSpan call makes a trace call of
\* its own (the per-step and per-item calls of the example controllers).
\* createSpan takes the parent from the current context.
NestedTrace(sdk) ==
    /\ op \in {"trace", "active"}
    /\ pc = "awaiting"
    /\ calls < MaxCalls
    /\ calls' = calls + 1
    /\ spans' = Append(spans, InnerTrace(cfg.enabled, sdk, active))
    /\ UNCHANGED <<cfg, active, op, pc, inp, cur, out, typeErrors, invoked>>
    /\ UNCHANGED HttpUnchanged
    /\ UNCHANGED OtherPillars

\* The caller of a finished traceWithActiveSpan call makes a trace call.
FollowingTrace(sdk) ==
    /\ op = "active"
    /\ pc = "done"
    /\ spans' = Append(spans, InnerTrace(cfg.enabled, sdk, active))
    /\ pc' = "followed"
    /\ UNCHANGED <<cfg, active, op, inp, cur, out, calls, typeErrors, invoked>>
    /\ UNCHANGED HttpUnchanged
    /\ UNCHANGED OtherPillars

(***************************************************************************)
(* tracing/decorators/trace.decorator.ts                                   *)
(***************************************************************************)
\* A call of the original method with no instrumentation around it.
CallOriginal(fnb, e) ==
    /\ invoked' = invoked + 1
    /\ out' = IF fnb \in {"throw", "reject"} THEN <<Thrown(e)>> ELSE <<Value("v")>>
    /\ op' = "undecorated"
    /\ pc' = "done"
    /\ inp' = [fnb |-> fnb, err |-> e]
    /\ UNCHANGED <<cfg, spans, active, cur, calls, typeErrors>>
    /\ UNCHANGED HttpUnchanged
    /\ UNCHANGED OtherPillars

BaseAttrs == Prims({"code.function", "code.namespace", "code.filepath"})

\* A call of a method decorated with Trace(name, options). hasService: the
\* class metadata holds a tracing service; autoEnd: options.autoEnd !== false.
DecoratedCall(hasService, autoEnd, fnb, e, sdk, attrs) ==
    /\ op = "idle"
    /\ cfg.module = "tracing"
    /\ IF hasService
       THEN TraceBegin(fnb, e, IF autoEnd THEN "ok" ELSE "none", sdk,
                       BaseAttrs \cup attrs, IF autoEnd THEN "autoEnd" ELSE "noAutoEnd")
       ELSE CallOriginal(fnb, e)

(***************************************************************************)
(* tracing/interceptors/tracing.interceptor.ts                             *)
(***************************************************************************)
\* What a handler's result stream emits: a serializable value, a value
\* JSON.stringify rejects (circular, BigInt), or undefined.
Data == {"v", "cyc", "nil"}

RequestAttrs ==
    Prims({"http.method", "http.url", "http.route", "http.user_agent",
           "http.client_ip", "nestjs.controller", "nestjs.handler"})

\* Which of params, query and body are non-empty, as a set of their names.
MetaInputs == {{}, {"body"}, {"params", "query", "body"}}

\* addRequestMetadata(span, body, params, query).
RECURSIVE AddRequestMetadata(_, _)
AddRequestMetadata(s, present) ==
    IF present = {} THEN s
    ELSE LET x == CHOOSE y \in present : TRUE
         IN AddRequestMetadata(
                IF x = "params" THEN SetAttribute(s, "request.params", "json", "lib")
                ELSE IF x = "query" THEN SetAttribute(s, "request.query", "json", "lib")
                ELSE SetAttribute(s, "request.body", "json", "lib"),
                present \ {x})

\* TracingInterceptor.intercept, and the framework subscribing to the
\* stream it returns (which invokes the handler).
TIIntercept(sdk, present) ==
    /\ op = "idle"
    /\ cfg.module = "tracing"
    /\ LET r == CreateSpan(cfg.enabled, sdk, RequestAttrs, active)
       IN spans' = Append(spans, AddRequestMetadata(r.span, present))
    /\ cur' = Len(spans) + 1
    /\ op' = "ti"
    /\ pc' = "streaming"
    /\ inp' = [none |-> TRUE]
    /\ invoked' = invoked + 1
    /\ UNCHANGED <<cfg, active, out, calls, typeErrors>>
    /\ UNCHANGED HttpUnchanged
    /\ UNCHANGED OtherPillars

\* tap.next: the handler's stream emits data.
TINext(data) ==
    /\ op = "ti"
    /\ pc = "streaming"
    /\ emitted < MaxEmit
    /\ emitted' = emitted + 1
    /\ completed' = completed + 1
    /\ spans' = [spans EXCEPT ![cur] =
                    EndSpan(@, TRUE, NoError, Prims({"http.status_code", "response.size"}))]
    /\ out' = Append(out, Value(data))
    /\ UNCHANGED <<cfg, active, op, pc, inp, cur, calls, typeErrors, invoked,
                   failed, errorTotal, requestTotal, durationObs>>
    /\ UNCHANGED OtherPillars

\* tap.error: the handler's stream fails with e.
TIError(e) ==
    /\ op = "ti"
    /\ pc = "streaming"
    /\ failed' = failed + 1
    /\ spans' = [spans EXCEPT ![cur] =
                    EndSpan(@, FALSE, e, Prims({"http.status_code", "error.name", "error.code"}))]
    /\ out' = Append(out, Thrown(e))
    /\ pc' = "done"
    /\ inp' = [err |-> e]
    /\ UNCHANGED <<cfg, active, op, cur, calls, typeErrors, invoked,
                   emitted, completed, errorTotal, requestTotal, durationObs>>
    /\ UNCHANGED OtherPillars

\* The handler's stream completes: tap has no complete callback.
TIComplete ==
    /\ op = "ti"
    /\ pc = "streaming"
    /\ out' = Append(out, Complete)
    /\ pc' = "done"
    /\ UNCHANGED <<cfg, spans, active, op, inp, cur, calls, typeErrors, invoked>>
    /\ UNCHANGED HttpUnchanged
    /\ UNCHANGED OtherPillars

\* The framework unsubscribes (client gone, timeout): tap has no finalizer.
TIUnsubscribe ==
    /\ op = "ti"
    /\ pc = "streaming"
    /\ pc' = "cancelled"
    /\ UNCHANGED <<cfg, spans, active, op, inp, cur, out, calls, typeErrors, invoked>>
    /\ UNCHANGED HttpUnchanged
    /\ UNCHANGED OtherPillars

(***************************************************************************)
(* services/tracing.service.ts, interceptors/http-trace.interceptor.ts     *)
(***************************************************************************)
\* startSpan of the observability TracingService, as traceAsync uses it.
StartSpan(initialized, parent) ==
    IF initialized THEN NewSpan("real", parent) ELSE NewSpan("sdknoop", 0)

\* getCurrentSpan(): the span of the calling task's context, 0 for undefined.
GetCurrentSpan(initialized, ambient) == IF initialized THEN ambient ELSE 0

\* setError(error) on span table sp.
SetError(sp, initialized, ambient, e) ==
    LET c == GetCurrentSpan(initialized, ambient)
    IN IF c = 0 THEN sp
       ELSE [sp EXCEPT ![c] = RecordException(SetStatus(@, "ERROR", Message(e), "lib"),
                                              e, "lib")]

\* setAttributes on the current span, as the interceptor's tap callback does.
SetCurrentAttributes(sp, initialized, ambient, keys) ==
    LET c == GetCurrentSpan(initialized, ambient)
    IN IF c = 0 THEN sp ELSE [sp EXCEPT ![c] = SetAttributes(@, keys, "lib")]

\* The try/finally of traceAsync once fn's promise has resolved.
TraceAsyncSucceeded(s) == End(SetStatus(s, "OK", "", "lib"), "lib")

\* The catch/finally of traceAsync once fn's promise has rejected with e.
TraceAsyncFailed(s, e) ==
    End(RecordException(SetStatus(s, "ERROR", Message(e), "lib"), e, "lib"), "lib")

HttpAttrKeys == {"http.method", "http.url", "http.host", "http.user_agent", "http.route"}

\* HttpTraceInterceptor.intercept: traceAsync starts the span and runs fn,
\* which returns next.handle() without subscribing to it. The framework
\* subscribes to the returned stream in its own context.
HTIntercept ==
    /\ op = "idle"
    /\ cfg.module = "observability"
    /\ spans' = Append(spans, SetAttributes(StartSpan(cfg.initialized, active),
                                            HttpAttrKeys, "lib"))
    /\ cur' = Len(spans) + 1
    /\ requestTotal' = IF cfg.metrics THEN requestTotal + 1 ELSE requestTotal
    /\ op' = "ht"
    /\ pc' = IF cfg.initialized THEN "awaitFn" ELSE "resolved"
    /\ inp' = [cancelled |-> FALSE]
    /\ UNCHANGED <<cfg, active, out, calls, typeErrors, invoked,
                   emitted, completed, failed, errorTotal, durationObs>>
    /\ UNCHANGED OtherPillars

\* traceAsync resumes after `await fn(span)`: status OK, then span.end().
HTResume ==
    /\ op = "ht"
    /\ pc = "awaitFn"
    /\ spans' = [spans EXCEPT ![cur] = TraceAsyncSucceeded(@)]
    /\ pc' = IF inp.cancelled THEN "cancelled" ELSE "resolved"
    /\ UNCHANGED <<cfg, active, op, inp, cur, out, calls, typeErrors, invoked>>
    /\ UNCHANGED HttpUnchanged
    /\ UNCHANGED OtherPillars

\* The promise of traceAsync resolves with the handler's stream; switchMap
\* subscribes to it, which invokes the handler.
HTSubscribe ==
    /\ op = "ht"
    /\ pc = "resolved"
    /\ invoked' = invoked + 1
    /\ pc' = "streaming"
    /\ UNCHANGED <<cfg, spans, active, op, inp, cur, out, calls, typeErrors>>
    /\ UNCHANGED HttpUnchanged
    /\ UNCHANGED OtherPillars

ResponseAttrKeys == HttpAttrKeys \cup {"http.status_code", "http.duration_ms"}

\* recordHttpRequestDuration called n times on a histogram with obs
\* observations so far.
RecordHttpRequestDuration(obs, n) == IF cfg.metrics THEN obs + n ELSE obs

\* The catchError callback on span table sp.
HTFailedPath(sp, e) == SetError(sp, cfg.initialized, active, e)

\* tap: the handler's stream emits data. The duration is recorded before
\* JSON.stringify(data), whose throwing sends the TypeError to catchError.
HTNext(data) ==
    /\ op = "ht"
    /\ pc = "streaming"
    /\ emitted < MaxEmit
    /\ emitted' = emitted + 1
    /\ completed' = completed + 1
    /\ LET sp == SetCurrentAttributes(spans, cfg.initialized, active, ResponseAttrKeys)
       IN IF data = "cyc"
          THEN /\ failed' = failed + 1
               /\ errorTotal' = IF cfg.metrics THEN errorTotal + 1 ELSE errorTotal
               /\ durationObs' = RecordHttpRequestDuration(durationObs, 2)
               /\ spans' = HTFailedPath(sp, InstrError)
               /\ out' = Append(out, Rethrow(InstrError))
               /\ pc' = "done"
          ELSE /\ spans' = sp
               /\ durationObs' = RecordHttpRequestDuration(durationObs, 1)
               /\ out' = Append(out, Value(data))
               /\ UNCHANGED <<failed, errorTotal, pc>>
    /\ UNCHANGED <<cfg, active, op, inp, cur, calls, typeErrors, invoked, requestTotal>>
    /\ UNCHANGED OtherPillars

\* catchError: the handler's stream fails with e.
HTError(e) ==
    /\ op = "ht"
    /\ pc = "streaming"
    /\ failed' = failed + 1
    /\ errorTotal' = IF cfg.metrics THEN errorTotal + 1 ELSE errorTotal
    /\ durationObs' = RecordHttpRequestDuration(durationObs, 1)
    /\ spans' = HTFailedPath(spans, e)
    /\ out' = Append(out, Rethrow(e))
    /\ pc' = "done"
    /\ inp' = [cancelled |-> FALSE, err |-> e]
    /\ UNCHANGED <<cfg, active, op, cur, calls, typeErrors, invoked,
                   emitted, completed, requestTotal>>
    /\ UNCHANGED OtherPillars

\* The handler's stream completes.
HTComplete ==
    /\ op = "ht"
    /\ pc = "streaming"
    /\ out' = Append(out, Complete)
    /\ pc' = "done"
    /\ UNCHANGED <<cfg, spans, active, op, inp, cur, calls, typeErrors, invoked>>
    /\ UNCHANGED HttpUnchanged
    /\ UNCHANGED OtherPillars

\* The framework unsubscribes from the stream intercept returned.
HTUnsubscribe ==
    /\ op = "ht"
    /\ pc \in {"awaitFn", "resolved", "streaming"}
    /\ IF pc = "awaitFn"
       THEN /\ inp' = [inp EXCEPT !.cancelled = TRUE]
            /\ ~inp.cancelled
            /\ UNCHANGED pc
       ELSE /\ pc' = "cancelled"
            /\ UNCHANGED inp
    /\ UNCHANGED <<cfg, spans, active, op, cur, out, calls, typeErrors, invoked>>
    /\ UNCHANGED HttpUnchanged
    /\ UNCHANGED OtherPillars

(***************************************************************************)
(* The Trace decorator built on ObservabilityService                       *)
(***************************************************************************)
\* The else branch of the decorated function: the original is called inside
\* the decorator's try, so an exception it throws synchronously reaches the
\* decorator's catch, which calls the original a second time.
CallOriginalInTry(fnb, e) ==
    /\ invoked' = invoked + (IF fnb = "throw" THEN 2 ELSE 1)
    /\ out' = IF fnb \in {"throw", "reject"} THEN <<Thrown(e)>> ELSE <<Value("v")>>
    /\ op' = "undecorated"
    /\ pc' = "done"
    /\ inp' = [fnb |-> fnb, err |-> e]
    /\ UNCHANGED <<cfg, spans, active, cur, calls, typeErrors>>
    /\ UNCHANGED HttpUnchanged
    /\ UNCHANGED OtherPillars

\* The catch block inside the decorator's fn.
InnerCatch(s, e) == RecordException(SetStatus(s, "ERROR", Message(e), "lib"), e, "lib")

\* A call of a method decorated with Trace(name, kind). lookup: the service
\* is found on the instance ("found"), absent ("absent"), or moduleRef.get
\* throws ("throws").
ObsDecoratedCall(lookup, fnb, e, withId) ==
    /\ op = "idle"
    /\ cfg.module = "observability"
    /\ IF lookup = "throws"
       THEN CallOriginal(fnb, e)
       ELSE IF lookup = "absent"
       THEN CallOriginalInTry(fnb, e)
       ELSE /\ LET s == SetAttributes(StartSpan(cfg.initialized, active),
                                      {"service.name", "code.function", "code.namespace"},
                                      "lib")
               IN spans' = Append(spans, IF fnb = "throw" THEN InnerCatch(s, e) ELSE s)
            /\ cur' = Len(spans) + 1
            /\ active' = IF cfg.initialized THEN Len(spans) + 1 ELSE active
            /\ invoked' = invoked + 1
            /\ op' = "obsdeco"
            /\ pc' = "awaiting"
            /\ inp' = [fnb |-> fnb, err |-> e, withId |-> withId, prev |-> active]
            /\ UNCHANGED <<cfg, out, calls, typeErrors>>
            /\ UNCHANGED HttpUnchanged
    /\ UNCHANGED OtherPillars

\* The original's promise settles: the rest of fn, then the rest of traceAsync.
ObsDecoratedSettle ==
    /\ op = "obsdeco"
    /\ pc = "awaiting"
    /\ LET s == spans[cur]
           failedFn == inp.fnb \in {"throw", "reject"}
           inner == IF inp.fnb = "reject" THEN InnerCatch(s, inp.err)
                    ELSE IF inp.fnb = "throw" THEN s
                    ELSE IF inp.withId THEN SetAttribute(s, "result.id", "prim", "lib")
                    ELSE s
       IN /\ spans' = [spans EXCEPT ![cur] =
                          IF ~cfg.initialized THEN inner
                          ELSE IF failedFn THEN TraceAsyncFailed(inner, inp.err)
                          ELSE TraceAsyncSucceeded(inner)]
          /\ out' = IF failedFn THEN <<Rethrow(inp.err)>> ELSE <<Value("v")>>
    /\ active' = inp.prev
    /\ pc' = "done"
    /\ UNCHANGED <<cfg, op, inp, cur, calls, typeErrors, invoked>>
    /\ UNCHANGED HttpUnchanged
    /\ UNCHANGED OtherPillars

(***************************************************************************)
(* MetricsService and the gauge method of ObservabilityService             *)
(***************************************************************************)
\* Request tasks that use the metrics service at the same time.
Tasks == {1, 2}

\* Logical metric names.
Names == {"a", "b"}

\* Values given to recordGaugeMetric.
GaugeValues == {1, 2}

Kinds == {"counter", "histogram", "upDownCounter", "observableGauge"}

\* Calls (lookups and updates) the request tasks make in one run.
MaxOps == 4

\* The four maps, each a set of <<key, instrument id>> entries.
NoInstruments == [k \in Kinds |-> {}]

\* held[t] before the first lookup of t.
NoHandle == [kind |-> "none", name |-> "", id |-> 0]

\* getMetricKey(name).
GetMetricKey(prefix, name) == IF prefix # "" THEN prefix \o name ELSE name

Has(map, key) == \E p \in map : p[1] = key
Get(map, key) == (CHOOSE p \in map : p[1] = key)[2]

\* meter.createCounter / createHistogram / createUpDownCounter /
\* createObservableGauge: a new instrument carrying the key as its name.
CreateInstrument(kind, key) ==
    [kind |-> kind, name |-> key, sum |-> 0, callbacks |-> <<>>]

\* gauge.addCallback(r => r.observe(callback())), callback being () => v.
AddCallback(g, v) == [g EXCEPT !.callbacks = Append(@, v)]

\* A lookup that creates an instrument whether or not the map has the key.
GetOrCreateAlways(reg, mtr, kind, key, v) ==
    LET g == CreateInstrument(kind, key)
    IN [registry |-> [reg EXCEPT ![kind] = {p \in @ : p[1] # key}
                                               \cup {<<key, Len(mtr) + 1>>}],
        meter |-> Append(mtr, IF kind = "observableGauge" THEN AddCallback(g, v) ELSE g),
        id |-> Len(mtr) + 1]

\* getObservableGauge registering the caller's callback on a hit as well.
GetOrCreateAddsCallback(reg, mtr, kind, key, v) ==
    IF Has(reg[kind], key)
    THEN LET id == Get(reg[kind], key)
         IN [registry |-> reg,
             meter |-> IF kind = "observableGauge"
                       THEN [mtr EXCEPT ![id] = AddCallback(@, v)] ELSE mtr,
             id |-> id]
    ELSE GetOrCreateAlways(reg, mtr, kind, key, v)

\* The body of getCounter, getHistogram, getUpDownCounter and
\* getObservableGauge once initialized: has(key), create and set on a miss,
\* get(key). v is the value the caller's gauge callback returns.
GetOrCreate(reg, mtr, kind, key, v) ==
    IF Has(reg[kind], key)
    THEN [registry |-> reg, meter |-> mtr, id |-> Get(reg[kind], key)]
    ELSE LET g == CreateInstrument(kind, key)
         IN [registry |-> [reg EXCEPT ![kind] = @ \cup {<<key, Len(mtr) + 1>>}],
             meter |-> Append(mtr, IF kind = "observableGauge" THEN AddCallback(g, v)
                                   ELSE g),
             id |-> Len(mtr) + 1]

\* A lookup on a service that is not initialized asking the meter anyway.
GetUninitializedCreates(reg, mtr) == GetOrCreate(reg, mtr, "counter", "early", 0)

\* The same when the service is not initialized: the no-op object (id 0).
GetUninitialized(reg, mtr) == [registry |-> reg, meter |-> mtr, id |-> 0]

TracingUnchanged == <<spans, active, cur, out, typeErrors, invoked, records>>

\* Task t calls getCounter, getHistogram, getUpDownCounter or
\* getObservableGauge (by kind) with a logical name. The call has no await:
\* it runs to its return before any other task runs.
LookupCall(t, kind, name, v) ==
    /\ cfg.module = "metrics"
    /\ calls < MaxOps
    /\ calls' = calls + 1
    /\ LET r == IF cfg.initialized
                THEN GetOrCreate(registry, meter, kind, GetMetricKey(cfg.prefix, name), v)
                ELSE GetUninitialized(registry, meter)
       IN /\ registry' = r.registry
          /\ meter' = r.meter
          /\ held' = [held EXCEPT ![t] = [kind |-> kind, name |-> name, id |-> r.id]]
    /\ op' = "lookup"
    /\ pc' = "done"
    /\ inp' = [kind |-> kind, name |-> name, value |-> v]
    /\ UNCHANGED <<cfg>>
    /\ UNCHANGED TracingUnchanged
    /\ UNCHANGED HttpUnchanged

\* Task t calls add(1) or record(1) on the handle it holds.
UpdateCall(t) ==
    /\ cfg.module = "metrics"
    /\ calls < MaxOps
    /\ held[t].kind \in {"counter", "histogram", "upDownCounter"}
    /\ calls' = calls + 1
    /\ meter' = IF held[t].id = 0 THEN meter
                ELSE [meter EXCEPT ![held[t].id].sum = @ + 1]
    /\ op' = "update"
    /\ pc' = "done"
    /\ inp' = [kind |-> held[t].kind, name |-> held[t].name, value |-> 1]
    /\ UNCHANGED <<cfg, registry, held>>
    /\ UNCHANGED TracingUnchanged
    /\ UNCHANGED HttpUnchanged

\* ObservabilityService.recordGaugeMetric(name, value) called by task t.
RecordGaugeMetric(t, name, v) ==
    /\ LookupCall(t, "observableGauge", name, v)

\* initialize(): the flag it leaves. started is whether the exporter, the
\* meter provider and their registration all succeed; a failure is caught
\* and logged.
MetricsInitialize(enabled, started) == enabled /\ started

\* onModuleInit of the MetricsService.
MetricsOnModuleInit(started) ==
    /\ cfg.module = "metrics"
    /\ ~cfg.hookRun
    /\ cfg' = [cfg EXCEPT !.initialized = MetricsInitialize(cfg.enabled, started),
                          !.hookRun = TRUE]
    /\ UNCHANGED <<op, pc, inp, calls, registry, meter, held>>
    /\ UNCHANGED TracingUnchanged
    /\ UNCHANGED HttpUnchanged

\* The instruments of the HTTP recorders.
HttpRecorders ==
    {[kind |-> "histogram", name |-> "http.request.duration"],
     [kind |-> "counter", name |-> "http.request.total"],
     [kind |-> "counter", name |-> "http.error.total"]}

\* recordHttpRequestDuration, incrementHttpRequestTotal and
\* incrementHttpErrorTotal: return when not initialized, else look the
\* instrument up and record or add once.
HttpRecorderCall(r) ==
    /\ cfg.module = "metrics"
    /\ calls < MaxOps
    /\ calls' = calls + 1
    /\ IF ~cfg.initialized
       THEN UNCHANGED <<registry, meter>>
       ELSE LET c == GetOrCreate(registry, meter, r.kind,
                                 GetMetricKey(cfg.prefix, r.name), 0)
            IN /\ registry' = c.registry
               /\ meter' = [c.meter EXCEPT ![c.id].sum = @ + 1]
    /\ op' = "recorder"
    /\ pc' = "done"
    /\ inp' = [kind |-> r.kind, name |-> r.name, value |-> 1]
    /\ UNCHANGED <<cfg, held>>
    /\ UNCHANGED TracingUnchanged
    /\ UNCHANGED HttpUnchanged

(***************************************************************************)
(* sanitizeData of tracing/interceptors/tracing.interceptor.ts             *)
(* A string is the sequence of its characters. A value is a record: t is   *)
(* "prim", "null", "obj" or "arr", p the payload of a primitive, e the     *)
(* entries <<key, value>> of an object or of an array (an array's keys are *)
(* its indices), in order.                                                 *)
(***************************************************************************)
UpperCase == <<"A", "B", "C", "D", "E", "F", "G", "H", "I", "J", "K", "L", "M",
               "N", "O", "P", "Q", "R", "S", "T", "U", "V", "W", "X", "Y", "Z">>
LowerCase == <<"a", "b", "c", "d", "e", "f", "g", "h", "i", "j", "k", "l", "m",
               "n", "o", "p", "q", "r", "s", "t", "u", "v", "w", "x", "y", "z">>

\* String.prototype.toLowerCase.
ToLowerCase(str) ==
    [i \in DOMAIN str |->
        IF \E j \in DOMAIN UpperCase : UpperCase[j] = str[i]
        THEN LowerCase[CHOOSE j \in DOMAIN UpperCase : UpperCase[j] = str[i]]
        ELSE str[i]]

\* String.prototype.includes.
Includes(str, part) ==
    \E i \in 0..(Len(str) - Len(part)) : SubSeq(str, i + 1, i + Len(part)) = part

SensitiveFields ==
    {<<"p", "a", "s", "s", "w", "o", "r", "d">>,
     <<"t", "o", "k", "e", "n">>,
     <<"s", "e", "c", "r", "e", "t">>,
     <<"a", "u", "t", "h", "o", "r", "i", "z", "a", "t", "i", "o", "n">>,
     <<"k", "e", "y">>,
     <<"a", "p", "i", "K", "e", "y">>,
     <<"a", "p", "i", "_", "k", "e", "y">>,
     <<"c", "r", "e", "d", "e", "n", "t", "i", "a", "l">>,
     <<"c", "r", "e", "d", "e", "n", "t", "i", "a", "l", "s">>,
     <<"a", "c", "c", "e", "s", "s", "T", "o", "k", "e", "n">>,
     <<"r", "e", "f", "r", "e", "s", "h", "T", "o", "k", "e", "n">>,
     <<"a", "u", "t", "h">>,
     <<"j", "w", "t">>,
     <<"s", "e", "s", "s", "i", "o", "n">>,
     <<"c", "o", "o", "k", "i", "e">>,
     <<"c", "s", "r", "f">>,
     <<"s", "s", "n">>,
     <<"c", "c">>,
     <<"c", "a", "r", "d">>,
     <<"c", "v", "v">>,
     <<"p", "i", "n">>}

\* The test of the forEach in sanitizeData.
IsSensitive(key) ==
    \E field \in SensitiveFields : Includes(ToLowerCase(key), ToLowerCase(field))

Prim(x) == [t |-> "prim", p |-> x, e |-> <<>>]
Null == [t |-> "null", p |-> "", e |-> <<>>]
Obj(entries) == [t |-> "obj", p |-> "", e |-> entries]
IndexKey(i) == <<(<<"0", "1", "2">>)[i]>>
Arr(elems) == [t |-> "arr", p |-> "", e |-> [i \in DOMAIN elems |-> <<IndexKey(i), elems[i]>>]]

Redacted == Prim("[REDACTED]")

\* The value reached from v by following the keys of path; Missing if there
\* is none.
Missing == [t |-> "missing", p |-> "", e |-> <<>>]

RECURSIVE At(_, _)
At(v, path) ==
    IF path = <<>> THEN v
    ELSE IF \E i \in DOMAIN v.e : v.e[i][1] = Head(path)
         THEN At(v.e[CHOOSE i \in DOMAIN v.e : v.e[i][1] = Head(path)][2], Tail(path))
         ELSE Missing

\* sanitizeData redacting the top level only.
SanitizeDataShallow(data) ==
    Obj([i \in DOMAIN data.e |->
            <<data.e[i][1], IF IsSensitive(data.e[i][1]) THEN Redacted ELSE data.e[i][2]>>])

\* sanitizeData(data): the spread copies the own enumerable entries of data
\* into a new plain object; typeof is 'object' for objects and arrays.
RECURSIVE SanitizeData(_)
SanitizeData(data) ==
    Obj([i \in DOMAIN data.e |->
            LET key == data.e[i][1]
                val == data.e[i][2]
            IN <<key, IF IsSensitive(key) THEN Redacted
                      ELSE IF val.t \in {"obj", "arr"} THEN SanitizeData(val)
                      ELSE val>>])

\* Keys of request data.
KeyPassword == <<"p", "a", "s", "s", "w", "o", "r", "d">>
KeyToken == <<"t", "o", "k", "e", "n">>
KeyUserToken == <<"u", "s", "e", "r", "T", "o", "k", "e", "n">>
KeyPIN == <<"P", "I", "N">>
KeyOk == <<"o", "k">>
KeyNested == <<"n", "e", "s", "t", "e", "d">>
KeyItems == <<"i", "t", "e", "m", "s">>

Leaves == {Prim("a"), Prim("b"), Null}
Arrays == {Arr(<<x>>) : x \in Leaves} \cup {Arr(<<x, y>>) : x, y \in {Prim("a"), Prim("b")}}
InnerObjects ==
    {Obj(<<<<k, x>>>>) : k \in {KeyToken, KeyOk, KeyPIN}, x \in Leaves}
    \cup {Obj(<<<<KeyToken, x>>, <<KeyOk, y>>>>) : x, y \in Leaves}
    \cup {Obj(<<<<KeyItems, a>>>>) : a \in Arrays}
Fields == Leaves \cup Arrays \cup InnerObjects

\* The request bodies (params, query objects) sanitizeData is applied to.
Bodies ==
    {Obj(<<<<k, x>>>>) : k \in {KeyPassword, KeyUserToken, KeyOk, KeyNested, KeyItems},
                          x \in Fields}
    \cup {Obj(<<<<KeyPassword, x>>, <<KeyNested, y>>>>) : x \in Leaves, y \in Fields}
    \cup {Obj(<<<<KeyItems, x>>, <<KeyOk, y>>>>) : x \in Arrays, y \in Leaves}

\* addRequestMetadata calls sanitizeData on a non-empty body, params or query.
SanitizeCall ==
    /\ cfg.module = "sanitize"
    /\ op = "idle"
    /\ out' = <<SanitizeData(inp.data)>>
    /\ op' = "sanitizeData"
    /\ pc' = "done"
    /\ UNCHANGED <<cfg, spans, active, inp, cur, calls, typeErrors, invoked>>
    /\ UNCHANGED HttpUnchanged
    /\ UNCHANGED OtherPillars

(***************************************************************************)
(* What the two request interceptors write about a request                 *)
(***************************************************************************)
KeyAuthorization == <<"a", "u", "t", "h", "o", "r", "i", "z", "a", "t", "i", "o", "n">>
KeyCookie == <<"c", "o", "o", "k", "i", "e">>
KeyHost == <<"h", "o", "s", "t">>

\* Where a request carries a secret: under a sensitive key of the body, of
\* the query string, of the route parameters, or in a header.
SecretPlaces == {"body", "query", "params", "authorization", "cookie"}
Secrets == {"s1", "s2", "s3"}

\* The entry <<key, secret>> if the secret is at that place, none otherwise.
SecretAt(place, here, key, secret) ==
    IF place = here THEN <<<<key, Prim(secret)>>>> ELSE <<>>

\* A request as the framework hands it to an interceptor. url is the raw
\* request target: its path holds the route parameters and its search part
\* the query string that query is parsed from.
Request(place, secret, extra) ==
    [url |-> [path |-> SecretAt(place, "params", KeyUserToken, secret),
              search |-> SecretAt(place, "query", KeyToken, secret)],
     params |-> Obj(SecretAt(place, "params", KeyUserToken, secret)),
     query |-> Obj(SecretAt(place, "query", KeyToken, secret)),
     body |-> Obj(<<<<KeyOk, extra>>>> \o SecretAt(place, "body", KeyPassword, secret)),
     headers |-> Obj(<<<<KeyHost, Prim("h")>>>>
                     \o SecretAt(place, "authorization", KeyAuthorization, secret)
                     \o SecretAt(place, "cookie", KeyCookie, secret))]

\* JSON.stringify(v): the text is determined by v and determines it.
Stringify(v) == [json |-> v]

\* `Object.keys(x).length > 0`.
NonEmpty(v) == v.e # <<>>

\* TracingInterceptor: the attributes of the request span (createSpan's
\* attributes and those of addRequestMetadata); it writes no log record.
TIRequestTelemetry(req) ==
    [attrs |-> {<<"http.url", req.url>>}
               \cup (IF NonEmpty(req.params)
                     THEN {<<"request.params", Stringify(SanitizeData(req.params))>>} ELSE {})
               \cup (IF NonEmpty(req.query)
                     THEN {<<"request.query", Stringify(SanitizeData(req.query))>>} ELSE {})
               \cup (IF NonEmpty(req.body)
                     THEN {<<"request.body", Stringify(SanitizeData(req.body))>>} ELSE {}),
     logs |-> <<>>]

\* HttpTraceInterceptor: the span attributes, and the debug record written
\* on entry with params, query and headers as metadata.
HTRequestTelemetry(req) ==
    [attrs |-> {<<"http.url", req.url>>, <<"http.route", req.url>>,
                <<"http.host", At(req.headers, <<KeyHost>>)>>},
     logs |-> <<[level |-> "debug", message |-> <<"Incoming request", req.url>>,
                 metadata |-> [params |-> req.params, query |-> req.query,
                               headers |-> req.headers]]>>]

\* An interceptor handles the two requests of inp.
InterceptPair(which) ==
    /\ cfg.module = "requests"
    /\ op = "idle"
    /\ out' = IF which = "ti"
              THEN <<TIRequestTelemetry(inp.a), TIRequestTelemetry(inp.b)>>
              ELSE <<HTRequestTelemetry(inp.a), HTRequestTelemetry(inp.b)>>
    /\ op' = which
    /\ pc' = "written"
    /\ UNCHANGED <<cfg, spans, active, inp, cur, calls, typeErrors, invoked>>
    /\ UNCHANGED HttpUnchanged
    /\ UNCHANGED OtherPillars

(***************************************************************************)
(* services/logging.service.ts                                             *)
(***************************************************************************)
\* Log records one run dispatches at most.
MaxLogs == 2

LogLevels == {"debug", "info", "warn", "error", "fatal"}

\* initialize(): the flag it leaves, given options.logging.enabled !== false.
\* No other option of LoggingOptions is read anywhere.
LoggingInitialize(enabled) == enabled

\* The metadata log receives: error and fatal add the trace argument last.
Metadata(level, metadata, trace) ==
    IF level \in {"error", "fatal"} THEN Put(metadata, "trace", trace) ELSE metadata

\* logWithNestLogger: the Logger method called.
NestMethod(level) ==
    CASE level = "debug" -> "debug"
      [] level = "info" -> "log"
      [] level = "warn" -> "warn"
      [] level \in {"error", "fatal"} -> "error"
      [] OTHER -> "log"

\* logToConsole: the console method called.
ConsoleMethod(level) ==
    CASE level = "debug" -> "debug"
      [] level = "info" -> "info"
      [] level = "warn" -> "warn"
      [] level \in {"error", "fatal"} -> "error"
      [] OTHER -> "log"

\* `contextName || 'Application'`.
ContextOrDefault(context) == IF context = "" THEN "Application" ELSE context

\* The ids enrichLogData reads from the active span.
TraceIdOf(ambient) == IF ambient = 0 THEN "undefined" ELSE "trace"
SpanIdOf(ambient) == IF ambient = 0 THEN "undefined" ELSE "span"

\* The value of key k in a field map.
Field(fields, k) == (CHOOSE p \in fields : p[1] = k)[2]

\* enrichLogData: the standard fields, then the metadata spread over them.
EnrichLogData(message, context, metadata, ambient) ==
    LET std == {<<"message", message>>, <<"timestamp", "prim">>,
                <<"context", ContextOrDefault(context)>>,
                <<"service", "prim">>, <<"environment", "prim">>,
                <<"traceId", TraceIdOf(ambient)>>, <<"spanId", SpanIdOf(ambient)>>}
    IN {p \in std : \A q \in metadata : q[1] # p[1]} \cup metadata

\* Whether JSON.stringify(metadata) returns (a circular or BigInt value
\* makes it throw).
Stringifiable(metadata) == \A p \in metadata : p[2] # "cyclic"

\* logWithNestLogger: message and the JSON text of the metadata go to a Nest
\* Logger of the context; JSON.stringify is not guarded.
LogWithNestLogger(level, message, context, metadata) ==
    [threw |-> ~Stringifiable(metadata),
     record |-> [sink |-> "nest", method |-> NestMethod(level), level |-> level,
                 message |-> message,
                 fields |-> {<<"context", ContextOrDefault(context)>>} \cup metadata]]

\* logToConsole: message is taken out of the data, the rest is the metadata
\* argument of the console method.
LogToConsole(level, data) ==
    [threw |-> FALSE,
     record |-> [sink |-> "console", method |-> ConsoleMethod(level), level |-> level,
                 message |-> Field(data, "message"),
                 fields |-> {p \in data : p[1] # "message"}]]

\* log(level, message, contextName, metadata) as debug, info, warn, error
\* and fatal call it: whether it threw, and the record dispatched if not.
Log(initialized, level, message, trace, context, metadata, ambient) ==
    IF ~initialized
    THEN LogWithNestLogger(level, message, context, Metadata(level, metadata, trace))
    ELSE LogToConsole(level, EnrichLogData(message, context,
                                           Metadata(level, metadata, trace), ambient))

\* Metadata maps given by callers: none, a plain one, one JSON.stringify
\* rejects, and one using the names of the record's own fields.
MetadataInputs ==
    {NoAttrs, {<<"k", "prim">>}, {<<"k", "cyclic">>},
     {<<"traceId", "forged">>, <<"spanId", "forged">>, <<"message", "forged">>}}

LoggingUnchanged == <<spans, active, cur, typeErrors, invoked, registry, meter, held>>

\* onModuleInit of the LoggingService.
LoggingOnModuleInit ==
    /\ cfg.module = "logging"
    /\ ~cfg.hookRun
    /\ cfg' = [cfg EXCEPT !.initialized = LoggingInitialize(cfg.enabled), !.hookRun = TRUE]
    /\ UNCHANGED <<op, pc, inp, out, calls, records>>
    /\ UNCHANGED LoggingUnchanged
    /\ UNCHANGED HttpUnchanged

\* A call of debug, info, warn, error or fatal, before or after onModuleInit.
LogCall(level, message, context, metadata) ==
    /\ cfg.module = "logging"
    /\ calls < MaxLogs
    /\ calls' = calls + 1
    /\ LET r == Log(cfg.initialized, level, message, "prim", context, metadata, active)
       IN /\ records' = IF r.threw THEN records ELSE Append(records, r.record)
          /\ out' = IF r.threw THEN Append(out, Thrown(InstrError)) ELSE out
          /\ inp' = [level |-> level, message |-> message, metadata |-> metadata,
                     initialized |-> cfg.initialized, threw |-> r.threw,
                     before |-> Len(records)]
    /\ op' = "log"
    /\ pc' = "done"
    /\ UNCHANGED cfg
    /\ UNCHANGED LoggingUnchanged
    /\ UNCHANGED HttpUnchanged

(***************************************************************************)
(* The span the Trace decorator of tracing/decorators asks for              *)
(* Names are sequences of characters, as in the sanitizeData section.       *)
(***************************************************************************)
WordController == <<"C", "o", "n", "t", "r", "o", "l", "l", "e", "r">>
WordFetch == <<"f", "e", "t", "c", "h">>
WordRequest == <<"r", "e", "q", "u", "e", "s", "t">>
WordCall == <<"c", "a", "l", "l">>
WordGet == <<"g", "e", "t">>

\* { ...a, ...b }.
Spread(a, b) == {p \in a : \A q \in b : q[1] # p[1]} \cup b

\* spanName: `name || ${target.constructor.name}.${propertyKey}`.
SpanName(name, className, propertyKey) ==
    IF name # <<>> THEN name ELSE className \o <<".">> \o propertyKey

\* spanKind: options.kind || INTERNAL (INTERNAL is 0), then the class-name
\* and method-name tests.
SpanKindOf(kind, className, propertyKey) ==
    IF Includes(className, WordController) THEN "SERVER"
    ELSE IF \/ Includes(propertyKey, WordFetch)
            \/ Includes(propertyKey, WordRequest)
            \/ Includes(propertyKey, WordCall)
            \/ Includes(propertyKey, WordGet) THEN "CLIENT"
    ELSE IF kind = "unset" THEN "INTERNAL"
    ELSE kind

\* baseAttributes.
BaseAttributes(className, propertyKey) ==
    {<<"code.function", propertyKey>>, <<"code.namespace", className>>,
     <<"code.filepath", className>>}

\* combinedAttributes with the base attributes spread last.
CombinedAttributesBaseLast(className, propertyKey, attributes) ==
    Spread(attributes, BaseAttributes(className, propertyKey))

\* combinedAttributes: { ...baseAttributes, ...options?.attributes }.
CombinedAttributes(className, propertyKey, attributes) ==
    Spread(BaseAttributes(className, propertyKey), attributes)

\* The attributes createSpan gives tracer.startSpan: the three standard
\* ones, then the caller's.
StartSpanAttributes(attributes) ==
    Spread({<<"service.name", <<"s">>>>, <<"service.version", <<"1">>>>,
            <<"environment", <<"e">>>>}, attributes)

ClassNames ==
    {<<"U", "s", "e", "r">> \o WordController,
     <<"U", "s", "e", "r", "S", "e", "r", "v", "i", "c", "e">>,
     <<"c", "o", "n", "t", "r", "o", "l", "l", "e", "r", "s">>}

MethodNames ==
    {WordGet \o <<"U", "s", "e", "r">>, WordFetch, <<"r", "e">> \o WordCall,
     <<"s", "e", "n", "d", "R", "e", "q", "u", "e", "s", "t">>,
     <<"w", "i", "d">> \o WordGet, <<"s", "a", "v", "e">>}

FunctionAttributes ==
    {NoAttrs, {<<"k", <<"v">>>>}, {<<"code.function", <<"m", "i", "n", "e">>>>}}

\* A call of a method decorated with Trace(name, options) on a class holding
\* a tracing service: the name, kind and attributes of the span trace() and
\* createSpan open for it (none with tracing disabled).
DecoratedOpen ==
    /\ cfg.module = "decorator"
    /\ op = "idle"
    /\ out' = IF cfg.enabled
              THEN <<[name |-> SpanName(inp.name, inp.className, inp.propertyKey),
                      kind |-> SpanKindOf(inp.kind, inp.className, inp.propertyKey),
                      attributes |-> StartSpanAttributes(
                          CombinedAttributes(inp.className, inp.propertyKey,
                                             inp.attributes))]>>
              ELSE <<>>
    /\ op' = "decorate"
    /\ pc' = "done"
    /\ UNCHANGED <<cfg, spans, active, inp, cur, calls, typeErrors, invoked>>
    /\ UNCHANGED HttpUnchanged
    /\ UNCHANGED OtherPillars

\* The counter recordError updates.
ErrorCounterName(context) ==
    "error." \o (IF context = "" THEN "application" ELSE context) \o ".count"

\* The sum of the counter registered under key, 0 when there is none.
CounterSum(reg, mtr, key) ==
    IF Has(reg["counter"], key) THEN mtr[Get(reg["counter"], key)].sum ELSE 0

\* ObservabilityService.recordError(error, context, attributes), the metrics
\* and tracing services being initialized: counter.add(1), setError on the
\* current span, loggingService.error(message, stack, context || service,
\* attributes).
RecordError(e, context, attributes) ==
    /\ cfg.module = "logging"
    /\ calls < MaxLogs
    /\ calls' = calls + 1
    /\ LET key == GetMetricKey(cfg.prefix, ErrorCounterName(context))
           c == GetOrCreate(registry, meter, "counter", key, 0)
           r == Log(cfg.initialized, "error", Message(e), "stack",
                    IF context = "" THEN "service" ELSE context, attributes, active)
       IN /\ registry' = c.registry
          /\ meter' = [c.meter EXCEPT ![c.id].sum = @ + 1]
          /\ spans' = SetError(spans, TRUE, active, e)
          /\ records' = IF r.threw THEN records ELSE Append(records, r.record)
          /\ out' = IF r.threw THEN Append(out, Thrown(InstrError)) ELSE out
          /\ inp' = [e |-> e, key |-> key, attributes |-> attributes,
                     sum |-> CounterSum(registry, meter, key),
                     before |-> Len(records)]
    /\ op' = "recordError"
    /\ pc' = "done"
    /\ UNCHANGED <<cfg, active, cur, typeErrors, invoked, held>>
    /\ UNCHANGED HttpUnchanged

(***************************************************************************)
(* Construction and module initialization of the four services             *)
(***************************************************************************)
\* TracingService of tracing/ ("tracingLib") and the tracing, metrics and
\* logging services of services/.
Services == {"tracingLib", "tracing", "metrics", "logging"}

\* Where the SDK fails during one start-up attempt: nowhere, in an exporter's
\* constructor, while the provider or SDK object is built and registered, or
\* in sdk.start().
StartupFaults == {"none", "exporter", "register", "start"}

\* The constructor of tracing/tracing.service.ts: `new NodeSDK({...,
\* spanProcessor: this.createSpanProcessor(config)})` is outside any try;
\* startSdk() catches what sdk.start() throws.
TracingConstructor(enabled, fault) ==
    IF ~enabled THEN [threw |-> FALSE, initialized |-> FALSE]
    ELSE IF fault \in {"exporter", "register"} THEN [threw |-> TRUE, initialized |-> FALSE]
    ELSE [threw |-> FALSE, initialized |-> fault = "none"]

\* initialize() of services/tracing.service.ts: everything inside one try.
ObsTracingInitialize(enabled, fault) ==
    [threw |-> FALSE, initialized |-> enabled /\ fault = "none"]

\* `new Service(...)` by the container.
Construct(fault) ==
    /\ cfg.module = "startup"
    /\ cfg.state = "new"
    /\ LET r == CASE cfg.service = "tracingLib" -> TracingConstructor(cfg.enabled, fault)
                  [] cfg.service = "tracing" -> ObsTracingInitialize(cfg.enabled, fault)
                  [] OTHER -> [threw |-> FALSE, initialized |-> FALSE]
           ran == cfg.enabled /\ cfg.service \in {"tracingLib", "tracing"}
       IN /\ cfg' = [cfg EXCEPT !.state = IF r.threw THEN "failed" ELSE "constructed",
                                !.initialized = r.initialized,
                                !.faulted = ran /\ fault # "none"]
          /\ out' = IF r.threw THEN Append(out, Thrown(InstrError)) ELSE out
    /\ op' = "construct"
    /\ pc' = "done"
    /\ inp' = [fault |-> fault]
    /\ UNCHANGED <<spans, active, cur, calls, typeErrors, invoked>>
    /\ UNCHANGED HttpUnchanged
    /\ UNCHANGED OtherPillars

\* onModuleInit of the three services of services/ (the TracingService of
\* tracing/ has none): tracing initializes again unless initialized already.
ModuleInit(fault) ==
    /\ cfg.module = "startup"
    /\ cfg.state = "constructed"
    /\ cfg.service # "tracingLib"
    /\ ~cfg.hookRun
    /\ LET again == cfg.service # "tracing" \/ ~cfg.initialized
           init == CASE cfg.service = "tracing" ->
                            ObsTracingInitialize(cfg.enabled, fault).initialized
                     [] cfg.service = "metrics" ->
                            MetricsInitialize(cfg.enabled, fault = "none")
                     [] OTHER -> LoggingInitialize(cfg.enabled)
           ran == again /\ cfg.enabled /\ cfg.service # "logging"
       IN cfg' = [cfg EXCEPT !.hookRun = TRUE,
                             !.initialized = IF again THEN init ELSE @,
                             !.faulted = @ \/ (ran /\ fault # "none")]
    /\ op' = "moduleInit"
    /\ pc' = "done"
    /\ inp' = [fault |-> fault]
    /\ UNCHANGED <<spans, active, cur, out, calls, typeErrors, invoked>>
    /\ UNCHANGED HttpUnchanged
    /\ UNCHANGED OtherPillars

\* A later call on the constructed service: createSpan (tracing/), startSpan
\* (services/tracing), getCounter and add (metrics), info (logging).
LaterCall(sdk, attrs) ==
    /\ cfg.module = "startup"
    /\ cfg.state = "constructed"
    /\ calls < MaxCalls
    /\ calls' = calls + 1
    /\ LET created == CreateSpan(cfg.enabled, sdk, attrs, active)
           counter == IF cfg.initialized
                      THEN GetOrCreate(registry, meter, "counter",
                                       GetMetricKey(cfg.prefix, "a"), 0)
                      ELSE GetUninitialized(registry, meter)
           logged == Log(cfg.initialized, "info", "boom", "prim", "Ctx", attrs, active)
       IN /\ spans' = CASE cfg.service = "tracingLib" -> Append(spans, created.span)
                        [] cfg.service = "tracing" ->
                               Append(spans, StartSpan(cfg.initialized, active))
                        [] OTHER -> spans
          /\ registry' = IF cfg.service = "metrics" THEN counter.registry ELSE registry
          /\ meter' = IF cfg.service = "metrics" /\ counter.id # 0
                      THEN [counter.meter EXCEPT ![counter.id].sum = @ + 1]
                      ELSE meter
          /\ records' = IF cfg.service = "logging" /\ ~logged.threw
                        THEN Append(records, logged.record) ELSE records
          /\ out' = Append(out,
                           IF \/ cfg.service = "tracingLib" /\ created.threw
                              \/ cfg.service = "logging" /\ logged.threw
                           THEN Thrown(InstrError) ELSE Value("v"))
    /\ op' = "later"
    /\ pc' = "done"
    /\ inp' = [fault |-> sdk]
    /\ UNCHANGED <<cfg, active, cur, typeErrors, invoked, held>>
    /\ UNCHANGED HttpUnchanged

(***************************************************************************)
(* Specification                                                           *)
(***************************************************************************)
\* The span of the enclosing task, if it has one (for instance the server
\* span the HTTP auto-instrumentation opened for the request).
OuterSpan == NewSpan("real", 0)

\* The application imports one of the library's two modules: TracingModule
\* (tracing/tracing.service.ts, switched by config.enabled) or
\* ObservabilityModule (services/*.ts, each service with its own initialized
\* flag). The services of the other module do not exist then.
Configs ==
    {[module |-> "tracing", enabled |-> b, initialized |-> FALSE, metrics |-> FALSE] :
        b \in BOOLEAN}
    \cup
    {[module |-> "observability", enabled |-> FALSE, initialized |-> b, metrics |-> m] :
        b \in BOOLEAN, m \in BOOLEAN}

Init ==
    /\ cfg \in Configs
    /\ \/ spans = <<>> /\ active = 0
       \/ spans = <<OuterSpan>> /\ active = 1
    /\ op = "idle"
    /\ pc = "idle"
    /\ inp = [none |-> TRUE]
    /\ cur = 0
    /\ out = <<>>
    /\ calls = 0
    /\ typeErrors = 0
    /\ invoked = 0
    /\ emitted = 0
    /\ completed = 0
    /\ failed = 0
    /\ errorTotal = 0
    /\ requestTotal = 0
    /\ durationObs = 0
    /\ registry = NoInstruments
    /\ meter = <<>>
    /\ held = [t \in Tasks |-> NoHandle]
    /\ records = <<>>

Next ==
    \/ \E sdk \in SdkFaults, a \in AttrInputs : CreateSpanCall(sdk, a)
    \/ \E ok \in BOOLEAN, e \in Errors \cup {NoError}, a \in EndAttrInputs :
         EndSpanCall(ok, e, a)
    \/ \E k \in ForeignSpans, ok \in BOOLEAN, e \in Errors \cup {NoError},
          a \in EndAttrInputs : EndSpanForeignCall(k, ok, e, a)
    \/ \E m \in Methods : Invoke(m)
    \/ \E fnb \in FnBehaviours, e \in Errors, ext \in Extractors,
          sdk \in SdkFaults, a \in AttrInputs : TraceCall(fnb, e, ext, sdk, a)
    \/ TraceSettle
    \/ \E fnb \in FnBehaviours, e \in Errors, a \in AttrInputs : ActiveCall(fnb, e, a)
    \/ ActiveSettle
    \/ \E sdk \in {"ok", "start"} : NestedTrace(sdk)
    \/ \E sdk \in {"ok", "start"} : FollowingTrace(sdk)
    \/ \E sdk \in SdkFaults, present \in MetaInputs : TIIntercept(sdk, present)
    \/ \E d \in Data : TINext(d)
    \/ \E e \in Errors : TIError(e)
    \/ TIComplete
    \/ TIUnsubscribe
    \/ HTIntercept
    \/ HTResume
    \/ HTSubscribe
    \/ \E d \in Data : HTNext(d)
    \/ \E e \in Errors : HTError(e)
    \/ HTComplete
    \/ HTUnsubscribe
    \/ \E has \in BOOLEAN, autoEnd \in BOOLEAN, fnb \in FnBehaviours, e \in Errors,
          sdk \in SdkFaults, a \in AttrInputs : DecoratedCall(has, autoEnd, fnb, e, sdk, a)
    \/ \E lookup \in {"found", "absent", "throws"}, fnb \in FnBehaviours, e \in Errors,
          withId \in BOOLEAN : ObsDecoratedCall(lookup, fnb, e, withId)
    \/ ObsDecoratedSettle

Spec == Init /\ [][Next]_vars

\* The configurations of a MetricsService: initialized or not (metrics
\* disabled or its start-up failed), with or without a name prefix.
MetricsConfigs ==
    {[module |-> "metrics", initialized |-> i, prefix |-> p] :
        i \in BOOLEAN, p \in {"", "app_"}}

MetricsInit ==
    /\ cfg \in MetricsConfigs
    /\ spans = <<>> /\ active = 0
    /\ op = "idle"
    /\ pc = "idle"
    /\ inp = [none |-> TRUE]
    /\ cur = 0
    /\ out = <<>>
    /\ calls = 0
    /\ typeErrors = 0
    /\ invoked = 0
    /\ emitted = 0
    /\ completed = 0
    /\ failed = 0
    /\ errorTotal = 0
    /\ requestTotal = 0
    /\ durationObs = 0
    /\ registry = NoInstruments
    /\ meter = <<>>
    /\ held = [t \in Tasks |-> NoHandle]
    /\ records = <<>>

MetricsNext ==
    \/ \E t \in Tasks, k \in Kinds \ {"observableGauge"}, n \in Names :
         LookupCall(t, k, n, 0)
    \/ \E t \in Tasks : UpdateCall(t)
    \/ \E t \in Tasks, n \in Names, v \in GaugeValues : RecordGaugeMetric(t, n, v)

MetricsSpec == MetricsInit /\ [][MetricsNext]_vars

\* A MetricsService as constructed, metrics enabled or disabled; requests
\* may use it before its onModuleInit has run.
MetricsBootInit ==
    /\ cfg \in {[module |-> "metrics", enabled |-> e, initialized |-> FALSE,
                 hookRun |-> FALSE, prefix |-> ""] : e \in BOOLEAN}
    /\ spans = <<>> /\ active = 0
    /\ op = "idle"
    /\ pc = "idle"
    /\ inp = [none |-> TRUE]
    /\ cur = 0
    /\ out = <<>>
    /\ calls = 0
    /\ typeErrors = 0
    /\ invoked = 0
    /\ emitted = 0
    /\ completed = 0
    /\ failed = 0
    /\ errorTotal = 0
    /\ requestTotal = 0
    /\ durationObs = 0
    /\ registry = NoInstruments
    /\ meter = <<>>
    /\ held = [t \in Tasks |-> NoHandle]
    /\ records = <<>>

MetricsBootNext ==
    \/ \E started \in BOOLEAN : MetricsOnModuleInit(started)
    \/ \E t \in Tasks, k \in Kinds \ {"observableGauge"} : LookupCall(t, k, "a", 0)
    \/ \E t \in Tasks : UpdateCall(t)
    \/ \E r \in HttpRecorders : HttpRecorderCall(r)

MetricsBootSpec == MetricsBootInit /\ [][MetricsBootNext]_vars

\* sanitizeData applied to each request body of Bodies.
SanitizeInit ==
    /\ cfg = [module |-> "sanitize"]
    /\ inp \in {[data |-> d] : d \in Bodies}
    /\ spans = <<>> /\ active = 0
    /\ op = "idle"
    /\ pc = "idle"
    /\ cur = 0
    /\ out = <<>>
    /\ calls = 0
    /\ typeErrors = 0
    /\ invoked = 0
    /\ emitted = 0
    /\ completed = 0
    /\ failed = 0
    /\ errorTotal = 0
    /\ requestTotal = 0
    /\ durationObs = 0
    /\ registry = NoInstruments
    /\ meter = <<>>
    /\ held = [t \in Tasks |-> NoHandle]
    /\ records = <<>>

SanitizeNext == SanitizeCall

SanitizeSpec == SanitizeInit /\ [][SanitizeNext]_vars

\* One of the four services about to be constructed by the container, its
\* pillar enabled or disabled.
StartupInit ==
    /\ cfg \in {[module |-> "startup", service |-> sv, enabled |-> e, state |-> "new",
                 hookRun |-> FALSE, initialized |-> FALSE, faulted |-> FALSE,
                 prefix |-> ""] : sv \in Services, e \in BOOLEAN}
    /\ spans = <<>> /\ active = 0
    /\ op = "idle"
    /\ pc = "idle"
    /\ inp = [fault |-> "none"]
    /\ cur = 0
    /\ out = <<>>
    /\ calls = 0
    /\ typeErrors = 0
    /\ invoked = 0
    /\ emitted = 0
    /\ completed = 0
    /\ failed = 0
    /\ errorTotal = 0
    /\ requestTotal = 0
    /\ durationObs = 0
    /\ registry = NoInstruments
    /\ meter = <<>>
    /\ held = [t \in Tasks |-> NoHandle]
    /\ records = <<>>

StartupNext ==
    \/ \E fault \in StartupFaults : Construct(fault)
    \/ \E fault \in StartupFaults : ModuleInit(fault)
    \/ \E sdk \in {"ok", "start"}, attrs \in {NoAttrs, {<<"k", "prim">>}} :
         LaterCall(sdk, attrs)

StartupSpec == StartupInit /\ [][StartupNext]_vars

\* Decorated methods: class and method name, the name and options given to
\* Trace, tracing enabled or not.
DecoratorInit ==
    /\ cfg \in {[module |-> "decorator", enabled |-> en] : en \in BOOLEAN}
    /\ inp \in {[name |-> n, className |-> c, propertyKey |-> m, kind |-> k,
                 attributes |-> a] :
                    n \in {<<>>, <<"o", "p">>}, c \in ClassNames, m \in MethodNames,
                    k \in {"unset", "INTERNAL", "SERVER", "CLIENT", "PRODUCER"},
                    a \in FunctionAttributes}
    /\ spans = <<>> /\ active = 0
    /\ op = "idle"
    /\ pc = "idle"
    /\ cur = 0
    /\ out = <<>>
    /\ calls = 0
    /\ typeErrors = 0
    /\ invoked = 0
    /\ emitted = 0
    /\ completed = 0
    /\ failed = 0
    /\ errorTotal = 0
    /\ requestTotal = 0
    /\ durationObs = 0
    /\ registry = NoInstruments
    /\ meter = <<>>
    /\ held = [t \in Tasks |-> NoHandle]
    /\ records = <<>>

DecoratorNext == DecoratedOpen

DecoratorSpec == DecoratorInit /\ [][DecoratorNext]_vars

\* Pairs of requests that differ only in the value of one sensitive field.
RequestPairs ==
    {[a |-> Request(place, s, x), b |-> Request(place, t, x)] :
        place \in SecretPlaces, s \in Secrets, t \in Secrets, x \in Leaves}

RequestsInit ==
    /\ cfg = [module |-> "requests"]
    /\ inp \in RequestPairs
    /\ spans = <<>> /\ active = 0
    /\ op = "idle"
    /\ pc = "idle"
    /\ cur = 0
    /\ out = <<>>
    /\ calls = 0
    /\ typeErrors = 0
    /\ invoked = 0
    /\ emitted = 0
    /\ completed = 0
    /\ failed = 0
    /\ errorTotal = 0
    /\ requestTotal = 0
    /\ durationObs = 0
    /\ registry = NoInstruments
    /\ meter = <<>>
    /\ held = [t \in Tasks |-> NoHandle]
    /\ records = <<>>

RequestsNext == \E which \in {"ti", "ht"} : InterceptPair(which)

RequestsSpec == RequestsInit /\ [][RequestsNext]_vars

\* A LoggingService as constructed (onModuleInit not yet run), with the
\* options logging.enabled and logging.includeTraceContext; the two other
\* services of the facade are initialized, metrics without a prefix.
LoggingConfigs ==
    {[module |-> "logging", enabled |-> e, includeTraceContext |-> i,
      initialized |-> FALSE, hookRun |-> FALSE, prefix |-> ""] :
        e \in BOOLEAN, i \in {"true", "false", "unset"}}

LoggingInit ==
    /\ cfg \in LoggingConfigs
    /\ \/ spans = <<>> /\ active = 0
       \/ spans = <<OuterSpan>> /\ active = 1
    /\ op = "idle"
    /\ pc = "idle"
    /\ inp = [none |-> TRUE]
    /\ cur = 0
    /\ out = <<>>
    /\ calls = 0
    /\ typeErrors = 0
    /\ invoked = 0
    /\ emitted = 0
    /\ completed = 0
    /\ failed = 0
    /\ errorTotal = 0
    /\ requestTotal = 0
    /\ durationObs = 0
    /\ registry = NoInstruments
    /\ meter = <<>>
    /\ held = [t \in Tasks |-> NoHandle]
    /\ records = <<>>

LoggingNext ==
    \/ LoggingOnModuleInit
    \/ \E level \in LogLevels, metadata \in MetadataInputs :
         LogCall(level, "boom", "Ctx", metadata)
    \/ \E e \in Errors, context \in {"", "Ctx"},
         attributes \in {NoAttrs, {<<"message", "forged">>}} :
         RecordError(e, context, attributes)

LoggingSpec == LoggingInit /\ [][LoggingNext]_vars

(***************************************************************************)
(* Properties                                                              *)
(***************************************************************************)
Last(q) == q[Len(q)]

Terminated == pc \in {"done", "cancelled"}

\* C1: one call of trace calls end() on the span it created exactly once, on
\* every exit path (fn returns, resolves, throws, rejects, or the
\* resultAttributes extractor throws), and not before fn has settled.
C1_TraceEndsSpanOnce ==
    op = "trace" => LibEnds(spans[cur]) = (IF pc = "done" THEN 1 ELSE 0)

C1_Witness ==
    /\ op = "trace" /\ pc = "done"
    /\ inp.fnb = "resolve" /\ inp.ext = "throws"
    /\ LibEnds(spans[cur]) = 1

\* C2: per intercepted request whose result stream has terminated, exactly
\* one of Completed and Failed was reached and the request span was ended
\* exactly once.
C2_ExactlyOneTerminalState ==
    (op \in {"ti", "ht"} /\ pc = "done") =>
        /\ completed + failed = 1
        /\ LibEnds(spans[cur]) = 1

\* The library's calls on s after its first end().
LateCalls(s) ==
    {i \in DOMAIN s.log :
        /\ s.log[i].by = "lib"
        /\ \E j \in 1..(i - 1) : s.log[j].m = "end"}

\* C3: the request span ends only after the handler has produced its result
\* or failed, the interceptor applies nothing to the request span after its
\* end, and it applies nothing to any other span.
C3_EndAfterHandlerAndMutations ==
    op \in {"ti", "ht"} =>
        /\ Ended(spans[cur]) => (invoked > 0 /\ (emitted > 0 \/ pc = "done"))
        /\ LateCalls(spans[cur]) = {}
        /\ \A i \in DOMAIN spans : i # cur => spans[i].log = <<>>

\* C4: a request whose stream has terminated or was unsubscribed has had its
\* recording span ended.
C4_NoSpanLeftOpen ==
    (op \in {"ti", "ht"} /\ Terminated /\ spans[cur].kind = "real") =>
        LibEnds(spans[cur]) >= 1

\* C5: when the handler of a request intercepted by HttpTraceInterceptor fails
\* with e (tracing and metrics initialized), http.error.total was incremented
\* once, the request span carries status ERROR with e's message and e as
\* recorded exception, and the caller received e.
C5_FailedRequestRecorded ==
    (op = "ht" /\ pc = "done" /\ "err" \in DOMAIN inp
        /\ cfg.initialized /\ cfg.metrics) =>
        /\ errorTotal = 1
        /\ spans[cur].status = "ERROR"
        /\ spans[cur].message = Message(inp.err)
        /\ spans[cur].exceptions = <<inp.err>>
        /\ Last(out) = Thrown(inp.err)

\* The application error the wrapped operation failed with, if it did.
FnFailed ==
    \/ op \in {"trace", "active", "undecorated", "obsdeco"} /\ inp.fnb \in {"throw", "reject"}
    \/ op \in {"ti", "ht"} /\ "err" \in DOMAIN inp

C7_InstrumentationFailureAbsorbed ==
    /\ (op = "trace" /\ pc = "done" /\ inp.fnb \in {"return", "resolve"}) =>
           (out = <<Value("v")>> /\ spans[cur].status # "ERROR")
    /\ (op \in {"ti", "ht"} /\ "err" \notin DOMAIN inp) =>
           (\A i \in DOMAIN out : out[i].t # "error")

\* C8: no method of the span interface raises an exception when called on the
\* span handed out while tracing is disabled.
C8_DisabledSpanIsTotal ==
    (op \in {"createSpan", "trace", "active"} /\ ~cfg.enabled) => typeErrors = 0

\* C9: createSpan never throws, and returns the no-op span when tracing is
\* disabled or an SDK call fails.
C9_CreateSpanNeverThrows ==
    op = "createSpan" =>
        /\ out = <<>>
        /\ (~cfg.enabled \/ inp.faulted) =>
               (spans[cur].kind = "stub" /\ spans[cur].parent = 0
                /\ spans[cur].attrs = NoAttrs)

C9_Witness ==
    /\ op = "createSpan" /\ pc = "held" /\ cfg.enabled /\ inp.faulted
    /\ spans[cur].kind = "stub"

\* C10: endSpan on a recording span that was not ended before sets the status
\* once: OK on success; ERROR with the error's message and one recorded
\* exception on failure with an error; ERROR "Unknown error" and no recorded
\* exception on failure without one.
C10_EndSpanStatus ==
    (op = "endSpan" /\ spans[cur].kind = "real" /\ EndCount(spans[cur]) = 1) =>
        LET s == spans[cur]
        IN /\ LibCount(s, "setStatus") = 1
           /\ inp.success =>
                (s.status = "OK" /\ LibCount(s, "recordException") = 0)
           /\ (~inp.success /\ inp.error # NoError) =>
                /\ s.status = "ERROR" /\ s.message = Message(inp.error)
                /\ LibCount(s, "recordException") = 1
                /\ Last(s.exceptions) = inp.error
           /\ (~inp.success /\ inp.error = NoError) =>
                /\ s.status = "ERROR" /\ s.message = "Unknown error"
                /\ LibCount(s, "recordException") = 0

C10_Witness ==
    /\ op = "endSpan" /\ spans[cur].kind = "real" /\ EndCount(spans[cur]) = 1
    /\ ~inp.success /\ inp.error = "e2"
    /\ spans[cur].status = "ERROR" /\ spans[cur].message = "bang"

\* The calls one endSpan call made on its span, in order.
EndSpanCalls == SubSeq(spans[cur].log, inp.before + 1, Len(spans[cur].log))

\* The positions of method m in call sequence q.
Positions(q, m) == {i \in DOMAIN q : q[i].m = m}

NestedSpans ==
    {i \in (cur + 1)..Len(spans) : ~(pc = "followed" /\ i = Len(spans))}

\* C12: with tracing enabled, every span a trace call creates while fn of
\* traceWithActiveSpan runs has that call's span as parent; once the call has
\* finished the current span is the one from before the call, and a span
\* created then has that one as parent (none, at top level).
C12_ActiveSpanIsAmbient ==
    (op = "active" /\ cfg.enabled) =>
        /\ \A i \in NestedSpans : spans[i].kind = "real" => spans[i].parent = cur
        /\ pc \in {"done", "followed"} => active = inp.prev
        /\ (pc = "followed" /\ Last(spans).kind = "real") =>
               Last(spans).parent = inp.prev

C12_Witness ==
    /\ op = "active" /\ cfg.enabled /\ pc = "followed" /\ inp.prev = 0
    /\ Len(spans) = cur + 2
    /\ spans[cur + 1].kind = "real" /\ spans[cur + 1].parent = cur
    /\ spans[cur + 2].kind = "real" /\ spans[cur + 2].parent = 0

\* C13: the span of a trace call made inside fn of an enclosing trace call
\* has the enclosing call's span as parent.
C13_NestedTraceIsChild ==
    (op = "trace" /\ cfg.enabled) =>
        \A i \in NestedSpans : spans[i].kind = "real" => spans[i].parent = cur

\* The instrument the registry holds for a kind and a logical name.
Registered(kind, name) == Get(registry[kind], GetMetricKey(cfg.prefix, name))

\* At most one instrument per kind and fully-qualified name, and every handle
\* a task got is the registered instrument of its kind and name.
OneInstrumentPerName ==
    /\ \A i, j \in DOMAIN meter :
         (meter[i].kind = meter[j].kind /\ meter[i].name = meter[j].name) => i = j
    /\ \A i \in DOMAIN meter :
         \E n \in Names : /\ meter[i].name = GetMetricKey(cfg.prefix, n)
                          /\ <<meter[i].name, i>> \in registry[meter[i].kind]
    /\ \A t \in Tasks :
         held[t].kind # "none" =>
             /\ held[t].id # 0
             /\ held[t].id = Registered(held[t].kind, held[t].name)
    /\ \A t, u \in Tasks :
         (held[t].kind = held[u].kind /\ held[t].name = held[u].name) =>
             held[t].id = held[u].id

\* An update through any handle adds to the registered instrument.
UpdatesAccumulate ==
    (op' = "update" /\ calls' = calls + 1) =>
        LET id == Registered(inp'.kind, inp'.name)
        IN meter'[id].sum = meter[id].sum + 1

\* C14: in an initialized MetricsService, however the lookups of the request
\* tasks interleave, the meter has created at most one instrument per kind
\* and prefixed name, every lookup of a kind and name returns that
\* instrument, and each add or record through a handle accumulates on it.
C14_OneInstrumentPerName ==
    /\ [](cfg.module = "metrics" /\ cfg.initialized => OneInstrumentPerName)
    /\ [][cfg.module = "metrics" /\ cfg.initialized => UpdatesAccumulate]_vars

C14_Witness ==
    /\ cfg.module = "metrics" /\ cfg.initialized /\ cfg.prefix = "app_"
    /\ held[1] = [kind |-> "counter", name |-> "a", id |-> 1]
    /\ held[2] = held[1]
    /\ Len(meter) = 1 /\ meter[1].name = "app_a" /\ meter[1].sum = 2

\* The value a collection reads from gauge g: each registered callback
\* observes its value, the last observation stands.
GaugeReports(g) == g.callbacks[Len(g.callbacks)]

\* One step of the registry as seen by the gauge of a logical name: an
\* existing gauge keeps its callback, a gauge created by the step has the
\* callback of the call that created it.
GaugeStep(n) ==
    LET key == GetMetricKey(cfg.prefix, n)
    IN IF Has(registry["observableGauge"], key)
       THEN /\ Has(registry'["observableGauge"], key)
            /\ meter'[Registered("observableGauge", n)]
                   = meter[Registered("observableGauge", n)]
       ELSE Has(registry'["observableGauge"], key) =>
               /\ inp'.kind = "observableGauge" /\ inp'.name = n
               /\ meter'[Len(meter')].callbacks = <<inp'.value>>
               /\ <<key, Len(meter')>> \in registry'["observableGauge"]

\* C15: on an initialized registry the gauge of a name has exactly one
\* callback, the one of the first recordGaugeMetric call for that name, and
\* reports that call's value; later calls change neither.
C15_GaugeKeepsFirstValue ==
    /\ [](cfg.module = "metrics" /\ cfg.initialized =>
            \A i \in DOMAIN meter :
                meter[i].kind = "observableGauge" => Len(meter[i].callbacks) = 1)
    /\ [][cfg.module = "metrics" /\ cfg.initialized => \A n \in Names : GaugeStep(n)]_vars

C15_Witness ==
    /\ cfg.module = "metrics" /\ cfg.initialized
    /\ op = "lookup" /\ inp.kind = "observableGauge" /\ inp.name = "a" /\ inp.value = 2
    /\ Len(meter) = 1 /\ meter[1].callbacks = <<1>> /\ GaugeReports(meter[1]) = 1
    /\ calls = 3

\* The paths of every value inside v.
RECURSIVE Paths(_)
Paths(v) ==
    {<<>>} \cup UNION {{<<v.e[i][1]>> \o q : q \in Paths(v.e[i][2])} : i \in DOMAIN v.e}

\* Every value passed on the way to path (the root included, the end not)
\* is a plain object.
ThroughObjects(v, path) ==
    \A n \in 0..(Len(path) - 1) : At(v, SubSeq(path, 1, n)).t = "obj"

NoSensitiveKey(path) == \A i \in DOMAIN path : ~IsSensitive(path[i])

\* C16: in the result of sanitizeData, every key reached through plain
\* objects under keys that match no sensitive term holds '[REDACTED]' if its
\* own lowercased name contains a sensitive term, and its unchanged value if
\* it does not and the value is a primitive.
C16_SensitiveKeysRedacted ==
    (op = "sanitizeData" /\ pc = "done") =>
        \A path \in Paths(inp.data) \ {<<>>} :
            LET n == Len(path)
            IN (ThroughObjects(inp.data, path) /\ NoSensitiveKey(SubSeq(path, 1, n - 1))) =>
                   IF IsSensitive(path[n])
                   THEN At(out[1], path) = Redacted
                   ELSE At(inp.data, path).t \in {"prim", "null"} =>
                            At(out[1], path) = At(inp.data, path)

C16_Witness ==
    /\ op = "sanitizeData" /\ pc = "done"
    /\ inp.data = Obj(<<<<KeyPassword, Prim("a")>>,
                        <<KeyNested, Obj(<<<<KeyToken, Prim("b")>>, <<KeyOk, Prim("a")>>>>)>>>>)
    /\ out[1] = Obj(<<<<KeyPassword, Redacted>>,
                      <<KeyNested, Obj(<<<<KeyToken, Redacted>>, <<KeyOk, Prim("a")>>>>)>>>>)

\* C17: in the result of sanitizeData, an array or a primitive under keys
\* that match no sensitive term is the value it was in the input.
C17_ArraysPassThrough ==
    (op = "sanitizeData" /\ pc = "done") =>
        \A path \in Paths(inp.data) :
            (NoSensitiveKey(path) /\ At(inp.data, path).t \in {"arr", "prim"}) =>
                At(out[1], path) = At(inp.data, path)

\* C18: two requests that differ only in the values of sensitive fields
\* (body, query, params, authorization or cookie header) leave identical
\* span attributes and log records.
C18_SensitiveValuesNotObservable ==
    pc = "written" => out[1] = out[2]

\* C19: with metrics initialized, a request intercepted by
\* HttpTraceInterceptor whose handler did not fail has recorded one duration
\* observation, added 1 to http.request.total and nothing to
\* http.error.total.
C19_SuccessfulRequestMetrics ==
    (op = "ht" /\ cfg.metrics /\ pc = "done" /\ "err" \notin DOMAIN inp) =>
        /\ durationObs = 1
        /\ requestTotal = 1
        /\ errorTotal = 0

\* C20: a pillar disabled by configuration emits nothing: a disabled logging
\* service dispatches no record to any sink, an uninitialized metrics
\* service creates no instrument, disabled tracing hands out no recording
\* span.
C20_DisabledPillarIsSilent ==
    /\ (cfg.module = "logging" /\ ~cfg.enabled) => records = <<>>
    /\ (cfg.module = "metrics" /\ ~cfg.initialized) => meter = <<>>
    /\ (cfg.module = "tracing" /\ ~cfg.enabled) =>
           \A i \in DOMAIN spans : (cur > 0 /\ i >= cur) => spans[i].kind # "real"

\* Whether record r has the trace or span id of a span.
CarriesTraceContext(r) ==
    \E p \in r.fields : p[1] \in {"traceId", "spanId"} /\ p[2] \in {"trace", "span"}

\* C21: with logging.includeTraceContext = false no record the logging
\* service dispatches carries a traceId or spanId.
C21_TraceContextOptional ==
    (cfg.module = "logging" /\ cfg.includeTraceContext = "false") =>
        \A i \in DOMAIN records : ~CarriesTraceContext(records[i])

\* C22: the record of a log call on an initialized logging service has the
\* message argument as message and the ids of the ambient span (none when no
\* span is active) as traceId and spanId, whatever the metadata.
C22_RecordFieldsFromContext ==
    (op = "log" /\ inp.initialized) =>
        /\ Len(records) = inp.before + 1
        /\ Last(records).message = inp.message
        /\ Field(Last(records).fields, "traceId") = TraceIdOf(active)
        /\ Field(Last(records).fields, "spanId") = SpanIdOf(active)

\* C29: a log call on a logging service that is not initialized does not
\* throw and dispatches one record, through the Nest logger, without trace
\* context.
C29_UninitializedLogIsSafe ==
    (op = "log" /\ ~inp.initialized) =>
        /\ ~inp.threw
        /\ out = <<>>
        /\ Len(records) = inp.before + 1
        /\ Last(records).sink = "nest"
        /\ \A p \in Last(records).fields :
               p[1] \in {"traceId", "spanId"} => p \in inp.metadata

\* C23: recordError(e, c, attributes) adds exactly 1 to the counter
\* error.<c>.count (error.application.count without c), marks the current
\* span, if any, ERROR with e recorded, and dispatches exactly one
\* error-level record whose message is e's message and which has e's stack.
C23_RecordErrorCorrelates ==
    (op = "recordError") =>
        /\ CounterSum(registry, meter, inp.key) = inp.sum + 1
        /\ active # 0 => /\ spans[active].status = "ERROR"
                         /\ \E i \in DOMAIN spans[active].exceptions :
                                spans[active].exceptions[i] = inp.e
        /\ Len(records) = inp.before + 1
        /\ Last(records).level = "error"
        /\ Last(records).message = Message(inp.e)
        /\ <<"trace", "stack">> \in Last(records).fields

\* C24: a call of a Trace-decorated method that finds no tracing or
\* observability service invokes the original exactly once and hands its
\* outcome to the caller, for synchronous and asynchronous originals.
C24_FallbackCallsOriginalOnce ==
    (op = "undecorated") =>
        /\ invoked = 1
        /\ out = IF inp.fnb \in {"throw", "reject"} THEN <<Thrown(inp.err)>>
                 ELSE <<Value("v")>>

\* Whether the method name contains fetch, request, call or get.
ClientNamed(m) ==
    \E w \in {WordFetch, WordRequest, WordCall, WordGet} :
        \E i \in 1..Len(m) : \E j \in i..Len(m) : SubSeq(m, i, j) = w

\* Whether the class name contains Controller.
ControllerClassified(c) ==
    \E i \in 1..Len(c) : \E j \in i..Len(c) : SubSeq(c, i, j) = WordController

C26_AutoEndControlsEnd ==
    (op = "trace" /\ pc = "done" /\ out # <<Thrown(InstrError)>>
        /\ spans[cur].kind = "real") =>
        /\ inp.by = "autoEnd" => Ended(spans[cur])
        /\ inp.by = "noAutoEnd" => ~Ended(spans[cur])

\* C27: while the metrics service is not initialized (metrics disabled,
\* start-up failed, or onModuleInit not yet run) every getCounter,
\* getHistogram and getUpDownCounter hands out the no-op instrument, and no
\* lookup, add, record or HTTP recorder creates an instrument in the SDK,
\* adds a map entry, changes a value or throws.
C27_UninitializedMetricsAreNoOps ==
    (cfg.module = "metrics" /\ ~cfg.initialized) =>
        /\ registry = NoInstruments
        /\ meter = <<>>
        /\ out = <<>>
        /\ \A t \in Tasks : held[t].id = 0

\* C27 witness: before onModuleInit of an enabled metrics service both tasks
\* hold an instrument, one has updated it and an HTTP recorder has run.
C27_Witness ==
    /\ cfg.module = "metrics" /\ cfg.enabled /\ ~cfg.hookRun
    /\ \A t \in Tasks : held[t].kind \in {"counter", "histogram"}
    /\ op = "recorder"
    /\ calls = 4

\* C28: a failure while a service configures or starts its SDK does not
\* leave the constructor or the module-init hook; the service is not
\* initialized from then on and every later call on it succeeds.
C28_StartupFailuresContained ==
    (cfg.module = "startup") =>
        /\ \A i \in DOMAIN out : out[i].t # "error"
        /\ cfg.state # "failed"
        /\ cfg.faulted => ~cfg.initialized

\* C30: when a method wrapped by the ObservabilityService-based Trace
\* decorator fails with e while tracing is initialized, its span gets one
\* ERROR status assignment and has e recorded once, both before its end.
C30_FailureMarkedOnce ==
    (op = "obsdeco" /\ pc = "done" /\ cfg.initialized
        /\ inp.fnb \in {"throw", "reject"}) =>
        LET s == spans[cur]
        IN /\ s.status = "ERROR"
           /\ LibCount(s, "setStatus") = 1
           /\ LibCount(s, "recordException") = 1
           /\ s.exceptions = <<inp.err>>
           /\ s.log[Len(s.log)] = [m |-> "end", by |-> "lib"]

====
